---------------------------- MODULE Spec2Model ----------------------------
(***************************************************************************)
(* Streaming reconstruction and block segmentation of assistant replies    *)
(* (src/src/agents/pi-embedded-subscribe.handlers.messages.ts).            *)
(*                                                                         *)
(* Text is a sequence of one-character strings.  Besides letters and       *)
(* white space the alphabet holds a few tokens, each standing for one      *)
(* complete marker of the real text:                                       *)
(*   "T" / "t"  opening / closing thinking tag,                            *)
(*   "F" / "f"  opening / closing final tag,   "q"  inline-code fence,     *)
(*   "M"        a complete media directive,    "V"  the voice directive,   *)
(*   "[" / "]"  the raw bracket characters of a directive opener/closer.   *)
(***************************************************************************)
EXTENDS Integers, Sequences, FiniteSets, TLC

(***************************************************************************)
(* Bounds of the model.                                                    *)
(***************************************************************************)
MaxUpdates == 3      \* message_update events handled in a run
MaxIndex == 2        \* largest contentIndex an event carries
MaxBlockEvents == 4  \* message_update events of a run of orderly blocks
MaxSessionEvents == 3  \* update and end events of the assistant in a session
MaxPairEvents == 4     \* events sent to two subscriptions together

(***************************************************************************)
(* String primitives (JavaScript String methods used by the handlers).     *)
(***************************************************************************)
Undefined == <<"undefined">>

Str(x) == IF x = Undefined THEN <<>> ELSE x

StartsWith(s, p) == Len(p) <= Len(s) /\ SubSeq(s, 1, Len(p)) = p

\* s.slice(n)
Slice(s, n) == SubSeq(s, n + 1, Len(s))

\* s.slice(0, n)
SliceTo(s, n) == SubSeq(s, 1, n)

\* the 0-based positions at which sub occurs in s
Occurrences(s, sub) ==
    {i \in 0..(Len(s) - Len(sub)) : SubSeq(s, i + 1, i + Len(sub)) = sub}

Min(S) == CHOOSE x \in S : \A y \in S : x <= y

Max(S) == CHOOSE x \in S : \A y \in S : x >= y

\* s.indexOf(sub, from)
IndexOf(s, sub, from) ==
    LET occ == {i \in Occurrences(s, sub) : i >= from}
    IN  IF occ = {} THEN -1 ELSE Min(occ)

\* s.lastIndexOf(sub)
LastIndexOf(s, sub) ==
    LET occ == Occurrences(s, sub)
    IN  IF occ = {} THEN -1 ELSE Max(occ)

\* s.includes(sub)
Includes(s, sub) == Occurrences(s, sub) # {}

WhiteSpace == {" ", "\n"}

\* s.trimEnd()
TrimEnd(s) ==
    LET keep == {i \in 1..Len(s) : s[i] \notin WhiteSpace}
    IN  IF keep = {} THEN <<>> ELSE SubSeq(s, 1, Max(keep))

\* s.trim()
Trim(s) ==
    LET keep == {i \in 1..Len(s) : s[i] \notin WhiteSpace}
    IN  IF keep = {} THEN <<>> ELSE SubSeq(s, Min(keep), Max(keep))

\* parts.join("\n")
RECURSIVE JoinLines(_)
JoinLines(parts) ==
    IF parts = <<>> THEN <<>>
    ELSE IF Len(parts) = 1 THEN parts[1]
    ELSE parts[1] \o <<"\n">> \o JoinLines(Tail(parts))

Filter(s, drop) == SelectSeq(s, LAMBDA ch : ch \notin drop)

(***************************************************************************)
(* stripTrailingDirective: cut an unterminated "[[" opener off the end.    *)
(***************************************************************************)
\* variant that looks at the first "[[" of the text instead of the last
stripTrailingDirective_FirstOpener(text) ==
    LET openIndex == IndexOf(text, <<"[", "[">>, 0)
        closeIndex == IndexOf(text, <<"]", "]">>, openIndex + 2)
    IN  IF openIndex < 0 THEN text
        ELSE IF closeIndex >= 0 THEN text
        ELSE SliceTo(text, openIndex)

stripTrailingDirective(text) ==
    LET openIndex == LastIndexOf(text, <<"[", "[">>)
        closeIndex == IndexOf(text, <<"]", "]">>, openIndex + 2)
    IN  IF openIndex < 0 THEN text
        ELSE IF closeIndex >= 0 THEN text
        ELSE SliceTo(text, openIndex)


(***************************************************************************)
(* Tag-state tracker (ctx.stripBlockTags): removes thinking spans and the  *)
(* final tags from text, advancing the tag state it is given.  Tags inside *)
(* an inline-code span are literal text.                                   *)
(***************************************************************************)
InitialTagState == [thinking |-> FALSE, final |-> FALSE, inlineCode |-> FALSE]

TagTokens == {"T", "t", "F", "f"}

RECURSIVE StripFrom(_, _, _)
StripFrom(text, st, acc) ==
    IF text = <<>> THEN [text |-> acc, st |-> st]
    ELSE LET ch == Head(text)
             isTag == ch \in TagTokens /\ ~st.inlineCode
             next == IF ch = "q" THEN [st EXCEPT !.inlineCode = ~@]
                     ELSE IF ~isTag THEN st
                     ELSE IF ch = "T" THEN [st EXCEPT !.thinking = TRUE]
                     ELSE IF ch = "t" THEN [st EXCEPT !.thinking = FALSE]
                     ELSE IF ch = "F" THEN [st EXCEPT !.final = TRUE]
                     ELSE [st EXCEPT !.final = FALSE]
             shown == IF isTag \/ st.thinking THEN acc ELSE Append(acc, ch)
         IN  StripFrom(Tail(text), next, shown)

stripBlockTags(text, st) == StripFrom(text, st, <<>>)

\* the text inside thinking spans, closed or still open
RECURSIVE ThinkingFrom(_, _, _)
ThinkingFrom(text, inside, acc) ==
    IF text = <<>> THEN acc
    ELSE LET ch == Head(text)
             next == IF ch = "T" THEN TRUE
                     ELSE IF ch = "t" THEN FALSE
                     ELSE inside
             kept == IF inside /\ ch \notin {"T", "t"} THEN Append(acc, ch)
                     ELSE acc
         IN  ThinkingFrom(Tail(text), next, kept)

extractThinkingFromTaggedStream(text) == Trim(ThinkingFrom(text, FALSE, <<>>))

extractThinkingFromTaggedText(text) == Trim(ThinkingFrom(text, FALSE, <<>>))

formatReasoningMessage(text) ==
    IF Trim(text) = <<>> THEN <<>> ELSE <<"R", ":">> \o Trim(text)

(***************************************************************************)
(* Directive extractor: cleaned text, media attachments, voice flag.       *)
(***************************************************************************)
DirectiveTokens == {"M", "V"}

parseReplyDirectives(text) ==
    [text |-> Filter(text, DirectiveTokens),
     mediaUrls |-> Len(text) - Len(Filter(text, {"M"})),
     audioAsVoice |-> Includes(text, <<"V">>)]

\* partial mode, over the visible part of the new chunk
consumePartialReplyDirectives(visibleDelta) == parseReplyDirectives(visibleDelta)

normalizeTextForComparison(text) == Trim(text)

isMessagingToolDuplicateNormalized(normalized, sentTexts) ==
    normalized # <<>> /\ normalized \in sentTexts

(***************************************************************************)
(* Final message: content is a sequence of blocks [type, text].            *)
(***************************************************************************)
\* inline thinking of a text block becomes reasoning content
promoteThinkingTagsToBlocks(content) ==
    [i \in 1..Len(content) |->
        IF content[i].type = "text"
            THEN [type |-> "text",
                  text |-> stripBlockTags(content[i].text, InitialTagState).text,
                  thinking |-> ThinkingFrom(content[i].text, FALSE, <<>>)]
            ELSE [type |-> content[i].type, text |-> <<>>,
                  thinking |-> content[i].text]]

TextParts(content) ==
    SelectSeq([i \in 1..Len(content) |->
                  IF content[i].type = "text" THEN Trim(content[i].text)
                  ELSE <<>>],
              LAMBDA t : t # <<>>)

\* the text blocks, trimmed, empty ones dropped, joined by "\n"
extractAssistantText(content) == Trim(JoinLines(TextParts(content)))

ThinkingParts(content) ==
    SelectSeq([i \in 1..Len(content) |-> Trim(content[i].thinking)],
              LAMBDA t : t # <<>>)

extractAssistantThinking(content) == Trim(JoinLines(ThinkingParts(content)))

(***************************************************************************)
(* The subscription context: ctx.state, the block chunker, the reply       *)
(* directive accumulator, the configuration, and what the callbacks have   *)
(* received during the current message (agentEvents, partialReplies,       *)
(* blockReplies, reasoningStream) and, in calls, the order in which they   *)
(* were called.                                                            *)
(***************************************************************************)
NewContext(cfg) ==
    [deltaBuffer |-> <<>>,
     blockBuffer |-> <<>>,
     cumulativeStreamedText |-> <<>>,
     currentTextContentIndex |-> -1,
     lastStreamedAssistant |-> Undefined,
     lastStreamedAssistantCleaned |-> Undefined,
     emittedAssistantUpdate |-> FALSE,
     partialBlockState |-> InitialTagState,
     blockState |-> InitialTagState,
     lastBlockReplyText |-> Undefined,
     lastReasoningSent |-> Undefined,
     assistantTexts |-> <<>>,
     assistantTextBaseline |-> 0,
     messagingToolSentTextsNormalized |-> cfg.sentTexts,
     blockReplyBreak |-> cfg.blockReplyBreak,
     includeReasoning |-> cfg.includeReasoning,
     streamReasoning |-> cfg.streamReasoning,
     blockChunking |-> cfg.blockChunking,
     chunkerBuffer |-> <<>>,
     replyDirectiveTail |-> <<>>,
     onBlockReply |-> cfg.onBlockReply,
     agentEvents |-> <<>>,
     partialReplies |-> <<>>,
     blockReplies |-> <<>>,
     reasoningStream |-> <<>>,
     calls |-> <<>>]

(***************************************************************************)
(* consumeReplyDirectives followed by the onBlockReply call: an            *)
(* unterminated opener at the end is held back until more text or the      *)
(* final call arrives; a payload with no text, media or voice flag is not  *)
(* delivered.                                                              *)
(***************************************************************************)
DeliverBlockReply(c, raw, final) ==
    LET combined == c.replyDirectiveTail \o raw
        body == IF final THEN combined ELSE stripTrailingDirective(combined)
        parsed == parseReplyDirectives(body)
        c1 == [c EXCEPT !.replyDirectiveTail = Slice(combined, Len(body))]
    IN  IF parsed.text # <<>> \/ parsed.mediaUrls > 0 \/ parsed.audioAsVoice
            THEN [c1 EXCEPT
                     !.blockReplies =
                         Append(@, [text |-> parsed.text,
                                    mediaUrls |-> parsed.mediaUrls,
                                    audioAsVoice |-> parsed.audioAsVoice]),
                     !.calls = Append(@, [callback |-> "onBlockReply",
                                          text |-> parsed.text])]
            ELSE c1

\* the text was already delivered: the last block reply, or a messaging-tool send
EmitBlockChunkIsDuplicate(c, chunk) ==
    \/ chunk = c.lastBlockReplyText
    \/ isMessagingToolDuplicateNormalized(normalizeTextForComparison(chunk),
                                          c.messagingToolSentTextsNormalized)

emitBlockChunk(c, text) ==
    LET r == stripBlockTags(text, c.blockState)
        chunk == TrimEnd(r.text)
        c1 == [c EXCEPT !.blockState = r.st]
    IN  IF chunk = <<>> THEN c1
        ELSE IF EmitBlockChunkIsDuplicate(c1, chunk) THEN c1
        ELSE LET c2 == [c1 EXCEPT !.lastBlockReplyText = chunk,
                                  !.assistantTexts = Append(@, chunk)]
             IN  IF c2.onBlockReply THEN DeliverBlockReply(c2, chunk, FALSE)
                 ELSE c2

emitReasoningStream(c, text) ==
    IF ~c.streamReasoning \/ formatReasoningMessage(text) = <<>> THEN c
    ELSE [c EXCEPT !.reasoningStream = Append(@, formatReasoningMessage(text)),
                   !.calls = Append(@, [callback |-> "onReasoningStream",
                                        text |-> formatReasoningMessage(text)])]

(***************************************************************************)
(* Block chunker: append / drain / reset / hasBuffered.                    *)
(***************************************************************************)
MinChars == 2
MaxChars == 3

BreakChars == {"\n"}

ChunkerHasBuffered(c) == c.blockChunking /\ c.chunkerBuffer # <<>>

\* the length of the prefix a non-forced drain flushes next, 0 when none is ready
ReadyPrefix(buf) ==
    LET hi == IF Len(buf) < MaxChars THEN Len(buf) ELSE MaxChars
        breaks == {p \in MinChars..hi : buf[p] \in BreakChars}
    IN  IF Len(buf) < MinChars THEN 0
        ELSE IF breaks # {} THEN Min(breaks)
        ELSE IF Len(buf) >= MaxChars THEN MaxChars
        ELSE 0

RECURSIVE ChunkerDrain(_, _)
ChunkerDrain(c, force) ==
    IF c.chunkerBuffer = <<>> THEN c
    ELSE IF force
        THEN emitBlockChunk([c EXCEPT !.chunkerBuffer = <<>>], c.chunkerBuffer)
    ELSE LET n == ReadyPrefix(c.chunkerBuffer)
         IN  IF n = 0 THEN c
             ELSE ChunkerDrain(
                      emitBlockChunk([c EXCEPT !.chunkerBuffer = Slice(@, n)],
                                     SliceTo(c.chunkerBuffer, n)),
                      force)

ChunkerReset(c) == [c EXCEPT !.chunkerBuffer = <<>>]

(***************************************************************************)
(* message_start                                                           *)
(***************************************************************************)
resetAssistantMessageState(c, nextAssistantTextBaseline) ==
    [c EXCEPT !.deltaBuffer = <<>>,
              !.blockBuffer = <<>>,
              !.chunkerBuffer = <<>>,
              !.replyDirectiveTail = <<>>,
              !.cumulativeStreamedText = <<>>,
              !.currentTextContentIndex = -1,
              !.lastStreamedAssistant = Undefined,
              !.lastStreamedAssistantCleaned = Undefined,
              !.emittedAssistantUpdate = FALSE,
              !.partialBlockState = InitialTagState,
              !.blockState = InitialTagState,
              !.lastBlockReplyText = Undefined,
              !.lastReasoningSent = Undefined,
              !.assistantTextBaseline = nextAssistantTextBaseline]

\* variant that does not move the baseline of assistantTexts
handleMessageStart_StaleBaseline(c, evt) ==
    IF evt.role # "assistant" THEN c
    ELSE resetAssistantMessageState(c, c.assistantTextBaseline)

handleMessageStart(c, evt) ==
    IF evt.role # "assistant" THEN c
    ELSE resetAssistantMessageState(c, Len(c.assistantTexts))

(***************************************************************************)
(* message_update                                                          *)
(***************************************************************************)
\* variant that takes thinking deltas for text as well
TextEventTypes_WithThinking == {"text_delta", "text_start", "text_end", "thinking_delta"}

TextEventTypes == {"text_delta", "text_start", "text_end"}

\* variant without the late-event guard: every event is handled
IsLateEvent_Never(c, contentIndex) == FALSE

\* variant whose guard also drops the events of the current block
IsLateEvent_Inclusive(c, contentIndex) ==
    /\ contentIndex >= 0
    /\ c.currentTextContentIndex >= 0
    /\ contentIndex <= c.currentTextContentIndex

\* a late event of a content block the stream has already moved past
IsLateEvent(c, contentIndex) ==
    /\ contentIndex >= 0
    /\ c.currentTextContentIndex >= 0
    /\ contentIndex < c.currentTextContentIndex

\* the provider's contentIndex changed: a new text block has started
IsBlockBoundary(c, contentIndex) ==
    /\ contentIndex >= 0
    /\ contentIndex # c.currentTextContentIndex
    /\ c.currentTextContentIndex >= 0

\* variant that leaves the pending text to the next flush
BoundaryFlush_Deferred(c) == c

\* variant whose drain at a block boundary is not forced
BoundaryFlush_Unforced(c) ==
    IF c.blockChunking THEN ChunkerReset(ChunkerDrain(c, FALSE))
    ELSE IF Len(c.blockBuffer) > 0
        THEN [emitBlockChunk(c, c.blockBuffer) EXCEPT !.blockBuffer = <<>>]
    ELSE c

\* flush what is pending for the previous block
BoundaryFlush(c) ==
    IF c.blockChunking THEN ChunkerReset(ChunkerDrain(c, TRUE))
    ELSE IF Len(c.blockBuffer) > 0
        THEN [emitBlockChunk(c, c.blockBuffer) EXCEPT !.blockBuffer = <<>>]
    ELSE c

\* variant that puts the separator in front of the first streamed text too
BoundarySeparator_Always(cumulative) == cumulative \o <<"\n">>

\* variant that adds no separator at a block boundary
BoundarySeparator_None(cumulative) == cumulative

\* the separator between the texts of two blocks in the cumulative text
BoundarySeparator(cumulative) ==
    IF Len(cumulative) > 0 THEN cumulative \o <<"\n">> ELSE cumulative

\* variant that resets the message-wide tag state as well
BlockBoundary_ResetsBoth(c) ==
    [BoundaryFlush(c) EXCEPT
        !.deltaBuffer = <<>>,
        !.lastStreamedAssistantCleaned = Undefined,
        !.emittedAssistantUpdate = FALSE,
        !.partialBlockState = InitialTagState,
        !.blockState = InitialTagState,
        !.cumulativeStreamedText = BoundarySeparator(@)]

BlockBoundary(c) ==
    [BoundaryFlush(c) EXCEPT
        !.deltaBuffer = <<>>,
        !.lastStreamedAssistantCleaned = Undefined,
        !.emittedAssistantUpdate = FALSE,
        !.partialBlockState = InitialTagState,
        !.cumulativeStreamedText = BoundarySeparator(@)]

\* variant that records the index of every event, a missing one as well
TrackContentIndex_Always(c, contentIndex) ==
    [c EXCEPT !.currentTextContentIndex = contentIndex]

TrackContentIndex(c, contentIndex) ==
    IF contentIndex >= 0 THEN [c EXCEPT !.currentTextContentIndex = contentIndex]
    ELSE c

\* variant that takes resent content whole whenever it differs from the buffer
ExtractChunk_Whole(deltaBuffer, evt) ==
    IF evt.type = "text_delta" THEN evt.delta
    ELSE IF evt.delta # <<>> THEN evt.delta
    ELSE IF evt.content # <<>> /\ evt.content # deltaBuffer THEN evt.content
    ELSE <<>>

\* the new text an event carries, given what the block has buffered
ExtractChunk(deltaBuffer, evt) ==
    IF evt.type = "text_delta" THEN evt.delta
    ELSE IF evt.delta # <<>> THEN evt.delta
    ELSE IF evt.content # <<>>
        THEN IF StartsWith(evt.content, deltaBuffer)
                 THEN Slice(evt.content, Len(deltaBuffer))
             ELSE IF StartsWith(deltaBuffer, evt.content) THEN <<>>
             ELSE IF ~Includes(deltaBuffer, evt.content) THEN evt.content
             ELSE <<>>
    ELSE <<>>

\* variant that leaves the chunk out of deltaBuffer
AppendChunk_BlockOnly(c, chunk) ==
    IF chunk = <<>> THEN c
    ELSE IF c.blockChunking
        THEN [c EXCEPT !.chunkerBuffer = @ \o chunk]
    ELSE [c EXCEPT !.blockBuffer = @ \o chunk]

AppendChunk(c, chunk) ==
    IF chunk = <<>> THEN c
    ELSE IF c.blockChunking
        THEN [c EXCEPT !.deltaBuffer = @ \o chunk, !.chunkerBuffer = @ \o chunk]
    ELSE [c EXCEPT !.deltaBuffer = @ \o chunk, !.blockBuffer = @ \o chunk]

\* variant that emits for every event once the block shows text
LiveDelta_Unconditional(cleanedText, previousCleaned, hasMedia, hasAudio) ==
    IF cleanedText = <<>> /\ ~hasMedia /\ ~hasAudio
        THEN [shouldEmit |-> FALSE, deltaText |-> <<>>]
    ELSE IF previousCleaned # <<>> /\ ~StartsWith(cleanedText, previousCleaned)
        THEN [shouldEmit |-> FALSE, deltaText |-> <<>>]
    ELSE [shouldEmit |-> TRUE,
          deltaText |-> Slice(cleanedText, Len(previousCleaned))]

\* variant that emits a regressed cleaned text again, whole
LiveDelta_ReEmitting(cleanedText, previousCleaned, hasMedia, hasAudio) ==
    IF cleanedText = <<>> /\ ~hasMedia /\ ~hasAudio
        THEN [shouldEmit |-> FALSE, deltaText |-> <<>>]
    ELSE IF previousCleaned # <<>> /\ ~StartsWith(cleanedText, previousCleaned)
        THEN [shouldEmit |-> TRUE, deltaText |-> cleanedText]
    ELSE LET deltaText == Slice(cleanedText, Len(previousCleaned))
         IN  [shouldEmit |-> (deltaText # <<>> \/ hasMedia \/ hasAudio),
              deltaText |-> deltaText]

\* whether a live update goes out, and the delta it carries
LiveDelta(cleanedText, previousCleaned, hasMedia, hasAudio) ==
    IF cleanedText = <<>> /\ ~hasMedia /\ ~hasAudio
        THEN [shouldEmit |-> FALSE, deltaText |-> <<>>]
    ELSE IF previousCleaned # <<>> /\ ~StartsWith(cleanedText, previousCleaned)
        THEN [shouldEmit |-> FALSE, deltaText |-> <<>>]
    ELSE LET deltaText == Slice(cleanedText, Len(previousCleaned))
         IN  [shouldEmit |-> (deltaText # <<>> \/ hasMedia \/ hasAudio),
              deltaText |-> deltaText]

EmitLiveUpdate(c, deltaText, mediaUrls) ==
    LET cumulativeText == c.cumulativeStreamedText \o deltaText
    IN  [c EXCEPT
            !.cumulativeStreamedText = cumulativeText,
            !.agentEvents = Append(@, [text |-> cumulativeText,
                                       delta |-> deltaText,
                                       mediaUrls |-> mediaUrls]),
            !.emittedAssistantUpdate = TRUE,
            !.partialReplies = Append(@, [text |-> cumulativeText,
                                          mediaUrls |-> mediaUrls]),
            !.calls = @ \o <<[callback |-> "onAgentEvent", text |-> cumulativeText],
                             [callback |-> "onPartialReply", text |-> cumulativeText]>>]

\* strip tags and directives from the block's text and stream what is new
StreamVisible(c, chunk) ==
    LET next == Trim(stripBlockTags(c.deltaBuffer, InitialTagState).text)
        partial == stripBlockTags(chunk, c.partialBlockState)
        visibleDelta == IF chunk # <<>> THEN partial.text ELSE <<>>
        parsedDelta == consumePartialReplyDirectives(visibleDelta)
        cleanedText == parseReplyDirectives(stripTrailingDirective(next)).text
        hasMedia == visibleDelta # <<>> /\ parsedDelta.mediaUrls > 0
        hasAudio == visibleDelta # <<>> /\ parsedDelta.audioAsVoice
        previousCleaned == Str(c.lastStreamedAssistantCleaned)
        live == LiveDelta(cleanedText, previousCleaned, hasMedia, hasAudio)
        c1 == [c EXCEPT
                 !.partialBlockState = IF chunk # <<>> THEN partial.st ELSE @,
                 !.lastStreamedAssistant = next,
                 !.lastStreamedAssistantCleaned = cleanedText]
    IN  IF next = <<>> THEN c
        ELSE IF live.shouldEmit
            THEN EmitLiveUpdate(c1, live.deltaText,
                                IF hasMedia THEN parsedDelta.mediaUrls ELSE 0)
        ELSE c1

\* non-forced drain after every update when replies break at text_end
DrainAfterUpdate(c) ==
    IF c.onBlockReply /\ c.blockChunking /\ c.blockReplyBreak = "text_end"
        THEN ChunkerDrain(c, FALSE)
    ELSE c

\* variant whose text_end drain of the chunker is not forced
FlushAtTextEnd_Unforced(c, evtType) ==
    IF evtType = "text_end" /\ c.blockReplyBreak = "text_end"
        THEN IF ChunkerHasBuffered(c) THEN ChunkerDrain(c, FALSE)
             ELSE IF Len(c.blockBuffer) > 0
                 THEN [emitBlockChunk(c, c.blockBuffer) EXCEPT !.blockBuffer = <<>>]
             ELSE c
    ELSE c

\* variant that leaves the pending text unflushed at text_end
FlushAtTextEnd_Skipped(c, evtType) == c

\* text_end closes the block: flush what is still pending
FlushAtTextEnd(c, evtType) ==
    IF evtType = "text_end" /\ c.blockReplyBreak = "text_end"
        THEN IF ChunkerHasBuffered(c) THEN ChunkerReset(ChunkerDrain(c, TRUE))
             ELSE IF Len(c.blockBuffer) > 0
                 THEN [emitBlockChunk(c, c.blockBuffer) EXCEPT !.blockBuffer = <<>>]
             ELSE c
    ELSE c

\* stream the reasoning visible so far in the block's text
StreamReasoning(c) ==
    IF c.streamReasoning
        THEN emitReasoningStream(c, extractThinkingFromTaggedStream(c.deltaBuffer))
    ELSE c

\* detect a block boundary, then track the current content index
EnterBlock(c, contentIndex) ==
    TrackContentIndex(
        IF IsBlockBoundary(c, contentIndex) THEN BlockBoundary(c) ELSE c,
        contentIndex)

\* variant that flushes the block at text_end before streaming its text
HandleChunk_FlushFirst(c, evtType, chunk) ==
    DrainAfterUpdate(
        StreamVisible(
            StreamReasoning(FlushAtTextEnd(AppendChunk(c, chunk), evtType)),
            chunk))

HandleChunk(c, evtType, chunk) ==
    FlushAtTextEnd(
        DrainAfterUpdate(
            StreamVisible(StreamReasoning(AppendChunk(c, chunk)), chunk)),
        evtType)

\* c: the context after the boundary and index steps
HandleTextEvent(c, evt) == HandleChunk(c, evt.type, ExtractChunk(c.deltaBuffer, evt))

handleMessageUpdate(c, evt) ==
    IF evt.role # "assistant" THEN c
    ELSE IF evt.type \notin TextEventTypes THEN c
    ELSE IF IsLateEvent(c, evt.contentIndex) THEN c
    ELSE HandleTextEvent(EnterBlock(c, evt.contentIndex), evt)

(***************************************************************************)
(* message_end                                                             *)
(***************************************************************************)
\* variant that replaces what the message has added by the final text
finalizeAssistantTexts_Replacing(c, text, addedDuringMessage, chunkerHasBuffered) ==
    LET c1 == IF ~chunkerHasBuffered /\ text # <<>>
                  THEN [c EXCEPT !.assistantTexts =
                            Append(SliceTo(@, c.assistantTextBaseline), text)]
              ELSE c
    IN  [c1 EXCEPT !.assistantTextBaseline = Len(c1.assistantTexts)]

\* assistantTexts gets the final text unless a block was flushed mid-message
finalizeAssistantTexts(c, text, addedDuringMessage, chunkerHasBuffered) ==
    LET c1 == IF ~addedDuringMessage /\ ~chunkerHasBuffered /\ text # <<>>
                  THEN [c EXCEPT !.assistantTexts = Append(@, text)]
              ELSE c
    IN  [c1 EXCEPT !.assistantTextBaseline = Len(c1.assistantTexts)]

\* the cleaned text and media of the final message, with the raw-text fallback
FinalCleaned(rawText, text) ==
    LET trimmedText == Trim(text)
        parsedText == parseReplyDirectives(stripTrailingDirective(trimmedText))
        rawTrimmed == Trim(rawText)
        rawStrippedFinal == Trim(Filter(rawTrimmed, {"F", "f"}))
        rawCandidate == IF rawStrippedFinal # <<>> THEN rawStrippedFinal
                        ELSE rawTrimmed
        parsedFallback == parseReplyDirectives(stripTrailingDirective(rawCandidate))
    IN  IF trimmedText # <<>> /\ (parsedText.text # <<>> \/ parsedText.mediaUrls > 0)
            THEN [cleanedText |-> parsedText.text, mediaUrls |-> parsedText.mediaUrls]
        ELSE IF rawCandidate # <<>>
            THEN [cleanedText |-> parsedFallback.text,
                  mediaUrls |-> parsedFallback.mediaUrls]
        ELSE [cleanedText |-> <<>>, mediaUrls |-> 0]

\* variant of message_end that never emits a live update of its own
FallbackLiveUpdate_Never(c, cleanedText, mediaUrls) == c

\* at least one live update per message that has text or media
FallbackLiveUpdate(c, cleanedText, mediaUrls) ==
    IF ~c.emittedAssistantUpdate /\ (cleanedText # <<>> \/ mediaUrls > 0)
        THEN [c EXCEPT
                 !.agentEvents = Append(@, [text |-> cleanedText,
                                            delta |-> cleanedText,
                                            mediaUrls |-> mediaUrls]),
                 !.calls = Append(@, [callback |-> "onAgentEvent",
                                      text |-> cleanedText]),
                 !.emittedAssistantUpdate = TRUE]
    ELSE c

\* variant that sends the reasoning without recording it as sent
maybeEmitReasoning_Unrecorded(c, shouldEmitReasoning, formattedReasoning) ==
    IF ~shouldEmitReasoning \/ formattedReasoning = <<>> THEN c
    ELSE [c EXCEPT
             !.blockReplies = Append(@, [text |-> formattedReasoning,
                                         mediaUrls |-> 0,
                                         audioAsVoice |-> FALSE]),
             !.calls = Append(@, [callback |-> "onBlockReply",
                                  text |-> formattedReasoning])]

maybeEmitReasoning(c, shouldEmitReasoning, formattedReasoning) ==
    IF ~shouldEmitReasoning \/ formattedReasoning = <<>> THEN c
    ELSE [c EXCEPT
             !.lastReasoningSent = formattedReasoning,
             !.blockReplies = Append(@, [text |-> formattedReasoning,
                                         mediaUrls |-> 0,
                                         audioAsVoice |-> FALSE]),
             !.calls = Append(@, [callback |-> "onBlockReply",
                                  text |-> formattedReasoning])]

\* whether message_end has an answer to deliver as a block reply
EndHasPending(c) ==
    \/ c.blockReplyBreak = "message_end"
    \/ IF c.blockChunking THEN ChunkerHasBuffered(c) ELSE Len(c.blockBuffer) > 0

\* the final block reply: the chunker's rest, or the final text unless a duplicate
FinalBlockReply(c, text) ==
    IF EndHasPending(c) /\ text # <<>> /\ c.onBlockReply
        THEN IF ChunkerHasBuffered(c) THEN ChunkerReset(ChunkerDrain(c, TRUE))
             ELSE IF text # c.lastBlockReplyText
                 THEN IF isMessagingToolDuplicateNormalized(
                             normalizeTextForComparison(text),
                             c.messagingToolSentTextsNormalized)
                          THEN c
                      ELSE DeliverBlockReply(
                               [c EXCEPT !.lastBlockReplyText = text], text, TRUE)
             ELSE c
    ELSE c

\* with replies breaking at text_end, resolve what the accumulator still holds
TailBlockReply(c) ==
    IF c.blockReplyBreak = "text_end" /\ c.onBlockReply
        THEN DeliverBlockReply(c, <<>>, TRUE)
    ELSE c

ResetAtMessageEnd(c) ==
    [c EXCEPT !.deltaBuffer = <<>>,
              !.blockBuffer = <<>>,
              !.chunkerBuffer = <<>>,
              !.blockState = InitialTagState,
              !.lastStreamedAssistant = Undefined,
              !.lastStreamedAssistantCleaned = Undefined]

\* the thinking of the final message, when reasoning is wanted at all
RawThinking(c, thinking, rawText) ==
    IF c.includeReasoning \/ c.streamReasoning
        THEN IF thinking # <<>> THEN thinking
             ELSE extractThinkingFromTaggedText(rawText)
    ELSE <<>>

\* variant that never sees the entries a message has added
AddedDuringMessage_Never(c) == FALSE

AddedDuringMessage(c) == Len(c.assistantTexts) > c.assistantTextBaseline

\* variant that lets streamReasoning alone switch the reasoning block reply on
ShouldEmitReasoning_EitherFlag(c, formattedReasoning) ==
    /\ (c.includeReasoning \/ c.streamReasoning)
    /\ formattedReasoning # <<>>
    /\ c.onBlockReply
    /\ formattedReasoning # c.lastReasoningSent

ShouldEmitReasoning(c, formattedReasoning) ==
    /\ c.includeReasoning
    /\ formattedReasoning # <<>>
    /\ c.onBlockReply
    /\ formattedReasoning # c.lastReasoningSent

StreamFinalReasoning(c, rawThinking) ==
    IF c.streamReasoning /\ rawThinking # <<>>
        THEN emitReasoningStream(c, rawThinking)
    ELSE c

\* reasoning before or after the answer, the final block reply, the streamed
\* reasoning, the accumulator's tail, and the reset
DeliverAtMessageEnd(c, text, rawThinking, formattedReasoning, shouldEmit, beforeAnswer) ==
    ResetAtMessageEnd(
        TailBlockReply(
            StreamFinalReasoning(
                maybeEmitReasoning(
                    FinalBlockReply(
                        maybeEmitReasoning(
                            c,
                            shouldEmit /\ beforeAnswer,
                            formattedReasoning),
                        text),
                    shouldEmit /\ ~beforeAnswer,
                    formattedReasoning),
                rawThinking)))

\* c: the context after finalizeAssistantTexts
ReasoningAndAnswer(c, text, rawThinking, formattedReasoning, addedDuringMessage) ==
    DeliverAtMessageEnd(
        c, text, rawThinking, formattedReasoning,
        ShouldEmitReasoning(c, formattedReasoning),
        /\ ShouldEmitReasoning(c, formattedReasoning)
        /\ c.blockReplyBreak = "message_end"
        /\ ~addedDuringMessage)

\* c: the context after the fallback live update
FinalizeAndDeliver(c, text, rawThinking) ==
    ReasoningAndAnswer(
        finalizeAssistantTexts(c, text, AddedDuringMessage(c), ChunkerHasBuffered(c)),
        text, rawThinking, formatReasoningMessage(rawThinking),
        AddedDuringMessage(c))

FallbackFrom(c, final) == FallbackLiveUpdate(c, final.cleanedText, final.mediaUrls)

EndWithText(c, rawText, text, thinking) ==
    FinalizeAndDeliver(FallbackFrom(c, FinalCleaned(rawText, text)), text,
                       RawThinking(c, thinking, rawText))

EndWithRawText(c, rawText, thinking) ==
    EndWithText(c, rawText, stripBlockTags(rawText, InitialTagState).text, thinking)

EndWithContent(c, content) ==
    EndWithRawText(c, extractAssistantText(content), extractAssistantThinking(content))

\* variant that finalizes the message of any role
handleMessageEnd_AnyRole(c, evt) ==
    EndWithContent(c, promoteThinkingTagsToBlocks(evt.message))

handleMessageEnd(c, evt) ==
    IF evt.role # "assistant" THEN c
    ELSE EndWithContent(c, promoteThinkingTagsToBlocks(evt.message))

(***************************************************************************)
(* The state machine.                                                      *)
(*   ctx      the subscription context                                     *)
(*   twin     the context of a second, independent subscription            *)
(*   event    the session event handled by the last step                   *)
(*   phase    "idle" before the first message_start, "streaming" inside a  *)
(*            message, "ended" after its message_end                       *)
(*   updates  the number of message_update events handled so far           *)
(* and, recorded from the events alone for stating the claims:             *)
(*   streamed per content index, the text the provider has streamed for    *)
(*            that block in the current message (index -1: text that       *)
(*            arrived before any indexed event)                            *)
(*   seen     the content indexes the events of the message have carried   *)
(*   closed   the content indexes whose text_end has arrived               *)
(*   orderly  whether the stream so far sent each block's events together, *)
(*            on increasing indexes, its text_end last                     *)
(*   log      with two subscriptions (ctx and twin), the events in arrival *)
(*            order, each with the subscription it was sent to; in a run   *)
(*            of messages with reasoning, the events handled so far; for   *)
(*            stripTrailingDirective on its own, the input and the         *)
(*            results; with raw indexes, the contentIndex field of the     *)
(*            last message_update as the provider sent it                  *)
(***************************************************************************)
VARIABLES ctx, twin, event, phase, updates, streamed, seen, closed, orderly, log

vars == <<ctx, twin, event, phase, updates, streamed, seen, closed, orderly, log>>

history == <<streamed, seen, closed, orderly>>

Indexes == -1..MaxIndex

BlockIndexes == -1..(MaxIndex + 1)

NoEvent ==
    [kind |-> "none", role |-> "assistant", type |-> "", delta |-> <<>>,
     content |-> <<>>, contentIndex |-> -1, message |-> <<>>]

StartEvent(role) == [NoEvent EXCEPT !.kind = "message_start", !.role = role]

UpdateEvent(type, delta, content, contentIndex) ==
    [NoEvent EXCEPT !.kind = "message_update", !.type = type, !.delta = delta,
                    !.content = content, !.contentIndex = contentIndex]

EndEvent(role, message) ==
    [NoEvent EXCEPT !.kind = "message_end", !.role = role, !.message = message]

TextBlock(text) == [type |-> "text", text |-> text]

NothingStreamed == [i \in BlockIndexes |-> <<>>]

\* the highest content index the message has used, -1 when none
Top == IF seen = {} THEN -1 ELSE Max(seen)

\* an event of a block the provider has already moved past
Late(evt) == evt.contentIndex >= 0 /\ evt.contentIndex < Top

\* the block an event belongs to
BlockOf(evt) == IF evt.contentIndex >= 0 THEN evt.contentIndex ELSE Top

\* the text an event adds to a block that holds soFar: a delta, or what the
\* resent full content has beyond the text already streamed
Carried(evt, soFar) ==
    IF evt.type = "text_delta" \/ evt.delta # <<>> THEN evt.delta
    ELSE IF StartsWith(evt.content, soFar) THEN Slice(evt.content, Len(soFar))
    ELSE IF Includes(soFar, evt.content) THEN <<>>
    ELSE evt.content

\* text before the first indexed event belongs to the first indexed block
Record(evt) ==
    IF Late(evt) THEN UNCHANGED history
    ELSE LET k == BlockOf(evt)
             soFar == IF seen = {} /\ k >= 0 THEN streamed[-1] ELSE streamed[k]
         IN  /\ streamed' = [[streamed EXCEPT ![-1] = IF k >= 0 THEN <<>> ELSE @]
                                EXCEPT ![k] = soFar \o Carried(evt, soFar)]
             /\ seen' = IF k >= 0 THEN seen \cup {k} ELSE seen
             /\ closed' = IF evt.type = "text_end" THEN closed \cup {k} ELSE closed
             /\ orderly' = /\ orderly
                           /\ evt.contentIndex >= 0
                           /\ k \notin closed
                           /\ (k > Top /\ Top >= 0) => Top \in closed

\* the final message of a provider whose stream and final content agree
RECURSIVE StreamedBlocks(_, _)
StreamedBlocks(st, i) ==
    IF i > MaxIndex + 1 THEN <<>>
    ELSE (IF st[i] = <<>> THEN <<>> ELSE <<TextBlock(st[i])>>)
             \o StreamedBlocks(st, i + 1)

StreamedMessage == StreamedBlocks(streamed, -1)

NewMessage(c) ==
    [c EXCEPT !.agentEvents = <<>>, !.partialReplies = <<>>,
              !.blockReplies = <<>>, !.reasoningStream = <<>>, !.calls = <<>>]

Configurations ==
    [blockReplyBreak : {"text_end", "message_end"},
     blockChunking : {FALSE},
     onBlockReply : {TRUE},
     includeReasoning : {FALSE},
     streamReasoning : {FALSE},
     sentTexts : {{}}]

Init ==
    /\ ctx \in {NewContext(cfg) : cfg \in Configurations}
    /\ twin = ctx
    /\ event = NoEvent
    /\ phase = "idle"
    /\ updates = 0
    /\ streamed = NothingStreamed
    /\ seen = {}
    /\ closed = {}
    /\ orderly = TRUE
    /\ log = <<>>

(***************************************************************************)
(* One subscription, events in any order.                                  *)
(***************************************************************************)
MessageStart ==
    /\ phase # "streaming"
    /\ event' = StartEvent("assistant")
    /\ ctx' = NewMessage(handleMessageStart(ctx, event'))
    /\ phase' = "streaming"
    /\ streamed' = NothingStreamed
    /\ seen' = {}
    /\ closed' = {}
    /\ orderly' = TRUE
    /\ UNCHANGED <<twin, updates>>
    /\ UNCHANGED log

TextDeltas == {<<"a">>, <<"b">>}

EndContents == {<<>>, <<"a">>, <<"b">>, <<"a", "b">>}

UpdateEvents ==
    {UpdateEvent("text_delta", d, <<>>, i) : d \in TextDeltas, i \in Indexes}
    \cup {UpdateEvent("text_start", <<>>, <<>>, i) : i \in Indexes}
    \cup {UpdateEvent("text_end", <<>>, t, i) : t \in EndContents, i \in Indexes}

MessageUpdate ==
    /\ phase # "idle"
    /\ updates < MaxUpdates
    /\ \E evt \in UpdateEvents :
        /\ event' = evt
        /\ ctx' = handleMessageUpdate(ctx, evt)
        /\ Record(evt)
    /\ updates' = updates + 1
    /\ UNCHANGED <<twin, phase>>
    /\ UNCHANGED log

MessageEnd ==
    /\ phase = "streaming"
    /\ event' = EndEvent("assistant", StreamedMessage)
    /\ ctx' = handleMessageEnd(ctx, event')
    /\ phase' = "ended"
    /\ UNCHANGED <<twin, updates, history>>
    /\ UNCHANGED log

Next == MessageStart \/ MessageUpdate \/ MessageEnd

Spec == Init /\ [][Next]_vars

(***************************************************************************)
(* One subscription fed by an orderly provider: the blocks of a message    *)
(* arrive on increasing indexes, each closed by its text_end before the    *)
(* next begins; a text_end of an earlier block may arrive again, late.     *)
(***************************************************************************)
BlockDeltas == {<<"a">>, <<"b">>, <<" ">>}

BlockContents == {<<>>, <<"a">>, <<"b">>}

BlockEvents ==
    {UpdateEvent("text_delta", d, <<>>, i) : d \in BlockDeltas, i \in 0..(MaxIndex + 1)}
    \cup {UpdateEvent("text_start", <<>>, <<>>, i) : i \in 0..(MaxIndex + 1)}
    \cup {UpdateEvent("text_end", <<>>, t, i) :
              t \in BlockContents, i \in 0..(MaxIndex + 1)}

BlockUpdate ==
    /\ phase = "streaming"
    /\ updates < MaxBlockEvents
    /\ \E evt \in BlockEvents :
        /\ Late(evt) => evt.type = "text_end" /\ evt.content = streamed[evt.contentIndex]
        /\ event' = evt
        /\ ctx' = handleMessageUpdate(ctx, evt)
        /\ Record(evt)
        /\ orderly'
    /\ updates' = updates + 1
    /\ UNCHANGED <<twin, phase>>
    /\ UNCHANGED log

NextBlocks == MessageStart \/ BlockUpdate \/ MessageEnd

SpecBlocks == Init /\ [][NextBlocks]_vars

(***************************************************************************)
(* Two subscriptions fed the same stream: ctx receives it with no          *)
(* contentIndex on any event, twin with contentIndex 0 on every event.     *)
(***************************************************************************)
TwinConfigurations ==
    [blockReplyBreak : {"text_end", "message_end"},
     blockChunking : {FALSE},
     onBlockReply : {TRUE},
     includeReasoning : BOOLEAN,
     streamReasoning : BOOLEAN,
     sentTexts : {{}}]

InitTwin ==
    /\ ctx \in {NewContext(cfg) : cfg \in TwinConfigurations}
    /\ twin = ctx
    /\ event = NoEvent
    /\ phase = "idle"
    /\ updates = 0
    /\ streamed = NothingStreamed
    /\ seen = {}
    /\ closed = {}
    /\ orderly = TRUE
    /\ log = <<>>

TwinDeltas == {<<"a">>, <<" ">>, <<"T">>, <<"t">>}

TwinContents == {<<>>, <<"a">>, <<"T", "a", "t">>}

TwinEvents ==
    {UpdateEvent("text_delta", d, <<>>, -1) : d \in TwinDeltas}
    \cup {UpdateEvent("text_start", <<>>, <<>>, -1)}
    \cup {UpdateEvent("text_end", <<>>, t, -1) : t \in TwinContents}

Indexed(evt) == [evt EXCEPT !.contentIndex = 0]

TwinStart ==
    /\ phase # "streaming"
    /\ event' = StartEvent("assistant")
    /\ ctx' = NewMessage(handleMessageStart(ctx, event'))
    /\ twin' = NewMessage(handleMessageStart(twin, event'))
    /\ phase' = "streaming"
    /\ streamed' = NothingStreamed
    /\ seen' = {}
    /\ closed' = {}
    /\ orderly' = TRUE
    /\ UNCHANGED updates
    /\ UNCHANGED log

TwinUpdate ==
    /\ phase # "idle"
    /\ updates < MaxBlockEvents
    /\ \E evt \in TwinEvents :
        /\ event' = evt
        /\ ctx' = handleMessageUpdate(ctx, evt)
        /\ twin' = handleMessageUpdate(twin, Indexed(evt))
        /\ Record(evt)
    /\ updates' = updates + 1
    /\ UNCHANGED phase
    /\ UNCHANGED log

TwinEnd ==
    /\ phase = "streaming"
    /\ event' = EndEvent("assistant", StreamedMessage)
    /\ ctx' = handleMessageEnd(ctx, event')
    /\ twin' = handleMessageEnd(twin, event')
    /\ phase' = "ended"
    /\ UNCHANGED <<updates, history>>
    /\ UNCHANGED log

NextTwin == TwinStart \/ TwinUpdate \/ TwinEnd

SpecTwin == InitTwin /\ [][NextTwin]_vars

(***************************************************************************)
(* A session: several messages whose final content need not be what was    *)
(* streamed, the block chunker switched on or off, events of messages of   *)
(* another role, and updates of sub-event types other than text.           *)
(***************************************************************************)
SessionConfigurations ==
    [blockReplyBreak : {"text_end", "message_end"},
     blockChunking : BOOLEAN,
     onBlockReply : {TRUE},
     includeReasoning : {FALSE},
     streamReasoning : {FALSE},
     sentTexts : {{}}]

InitSession ==
    /\ ctx \in {NewContext(cfg) : cfg \in SessionConfigurations}
    /\ twin = ctx
    /\ event = NoEvent
    /\ phase = "idle"
    /\ updates = 0
    /\ streamed = NothingStreamed
    /\ seen = {}
    /\ closed = {}
    /\ orderly = TRUE
    /\ log = <<>>

OtherRoles == {"user", "toolResult"}
OtherTypes == {"", "thinking_delta", "toolcall_start"}
SessionIndexes == 0..1
SessionDeltas == {<<"a">>, <<"a", "b">>, <<" ">>}
SessionMessages ==
    {<<>>, <<TextBlock(<<"a">>)>>, <<TextBlock(<<"M">>)>>,
     <<TextBlock(<<"a">>), TextBlock(<<"b">>)>>}

SessionEvents ==
    {UpdateEvent("text_delta", d, <<>>, i) : d \in SessionDeltas, i \in SessionIndexes}
    \cup {UpdateEvent("text_start", <<>>, <<>>, i) : i \in SessionIndexes}
    \cup {UpdateEvent("text_end", <<>>, <<>>, i) : i \in SessionIndexes}

SessionStart ==
    /\ phase # "streaming"
    /\ event' = StartEvent("assistant")
    /\ ctx' = NewMessage(handleMessageStart(ctx, event'))
    /\ phase' = "streaming"
    /\ streamed' = NothingStreamed
    /\ seen' = {}
    /\ closed' = {}
    /\ orderly' = TRUE
    /\ UNCHANGED <<twin, updates>>
    /\ UNCHANGED log

SessionUpdate ==
    /\ phase = "streaming"
    /\ updates < MaxSessionEvents
    /\ \E evt \in SessionEvents :
        /\ event' = evt
        /\ ctx' = handleMessageUpdate(ctx, evt)
        /\ Record(evt)
    /\ updates' = updates + 1
    /\ UNCHANGED <<twin, phase>>
    /\ UNCHANGED log

SessionEnd ==
    /\ phase = "streaming"
    /\ updates < MaxSessionEvents
    /\ \E message \in SessionMessages \cup {StreamedMessage} :
        /\ event' = EndEvent("assistant", message)
        /\ ctx' = handleMessageEnd(ctx, event')
    /\ phase' = "ended"
    /\ updates' = updates + 1
    /\ UNCHANGED <<twin, history>>
    /\ UNCHANGED log

\* events of a message that is not the assistant's
OtherRoleEvents ==
    {UpdateEvent("text_delta", <<"a">>, <<>>, 1), UpdateEvent("text_end", <<>>, <<"a">>, 1)}

OtherRoleStart ==
    /\ \E role \in OtherRoles :
        /\ event' = StartEvent(role)
        /\ ctx' = handleMessageStart(ctx, event')
    /\ UNCHANGED <<twin, phase, updates, history>>
    /\ UNCHANGED log

OtherRoleUpdate ==
    /\ \E role \in OtherRoles, evt \in OtherRoleEvents :
        /\ event' = [evt EXCEPT !.role = role]
        /\ ctx' = handleMessageUpdate(ctx, event')
    /\ UNCHANGED <<twin, phase, updates, history>>
    /\ UNCHANGED log

OtherRoleEnd ==
    /\ \E role \in OtherRoles :
        /\ event' = EndEvent(role, <<TextBlock(<<"a">>)>>)
        /\ ctx' = handleMessageEnd(ctx, event')
    /\ UNCHANGED <<twin, phase, updates, history>>
    /\ UNCHANGED log

\* thinking, tool call and untyped updates of the assistant's message
OtherTypeUpdate ==
    /\ phase = "streaming"
    /\ \E type \in OtherTypes, i \in {-1, MaxIndex} :
        /\ event' = UpdateEvent(type, <<"a">>, <<"a">>, i)
        /\ ctx' = handleMessageUpdate(ctx, event')
    /\ UNCHANGED <<twin, phase, updates, history>>
    /\ UNCHANGED log

NextSession ==
    \/ SessionStart
    \/ SessionUpdate
    \/ SessionEnd
    \/ OtherRoleStart
    \/ OtherRoleUpdate
    \/ OtherRoleEnd
    \/ OtherTypeUpdate

SpecSession == InitSession /\ [][NextSession]_vars

(***************************************************************************)
(* One block whose text_start and text_end events carry a delta, resend    *)
(* the block's content, or both.                                           *)
(***************************************************************************)
(***************************************************************************)
(* Two subscriptions, each with its own context: ctx belongs to            *)
(* subscription 1 and twin to subscription 2; their events interleave.     *)
(***************************************************************************)
Subscriptions == {1, 2}

InitPair ==
    /\ ctx \in {NewContext(cfg) : cfg \in Configurations}
    /\ twin \in {NewContext(cfg) : cfg \in Configurations}
    /\ event = NoEvent
    /\ phase = "idle"
    /\ updates = 0
    /\ streamed = NothingStreamed
    /\ seen = {}
    /\ closed = {}
    /\ orderly = TRUE
    /\ log = <<>>

PairEvents ==
    {StartEvent("assistant"), EndEvent("assistant", <<TextBlock(<<"a">>)>>),
     UpdateEvent("text_end", <<>>, <<>>, 0)}
    \cup {UpdateEvent("text_delta", <<"a">>, <<>>, i) : i \in 0..1}

\* the session's event source calls the handler of the event's kind
Dispatch(c, evt) ==
    CASE evt.kind = "message_start" -> NewMessage(handleMessageStart(c, evt))
      [] evt.kind = "message_update" -> handleMessageUpdate(c, evt)
      [] evt.kind = "message_end" -> handleMessageEnd(c, evt)

\* variant in which a message_start reaches the handlers of every subscription
Deliver_SharedStart(c, own, to, evt) ==
    IF own = to \/ evt.kind = "message_start" THEN Dispatch(c, evt) ELSE c

\* the context of subscription own after an event sent to subscription to
Deliver(c, own, to, evt) == IF own = to THEN Dispatch(c, evt) ELSE c

PairEvent ==
    /\ Len(log) < MaxPairEvents
    /\ \E to \in Subscriptions, evt \in PairEvents :
        /\ event' = evt
        /\ ctx' = Deliver(ctx, 1, to, evt)
        /\ twin' = Deliver(twin, 2, to, evt)
        /\ log' = Append(log, [to |-> to, evt |-> evt])
    /\ UNCHANGED <<phase, updates, history>>

NextPair == PairEvent

SpecPair == InitPair /\ [][NextPair]_vars

(***************************************************************************)
(* Blocks whose text carries think tags, on content indexes 0 and 1 and    *)
(* without an index.                                                       *)
(***************************************************************************)
TagDeltas == {<<"a">>, <<"T">>, <<"t">>}
TagIndexes == -1..1
TagEvents ==
    {UpdateEvent("text_delta", d, <<>>, i) : d \in TagDeltas, i \in TagIndexes}
    \cup {UpdateEvent(type, <<>>, <<>>, i) :
              type \in {"text_start", "text_end"}, i \in TagIndexes}

TagUpdate ==
    /\ phase = "streaming"
    /\ updates < MaxBlockEvents
    /\ \E evt \in TagEvents :
        /\ event' = evt
        /\ ctx' = handleMessageUpdate(ctx, evt)
        /\ Record(evt)
    /\ updates' = updates + 1
    /\ UNCHANGED <<twin, phase, log>>

NextTags == MessageStart \/ TagUpdate \/ MessageEnd

SpecTags == Init /\ [][NextTags]_vars

ResendDeltas == {<<"a">>, <<"b">>}
ResendContents == {<<>>, <<"a">>, <<"b">>, <<"a", "b">>, <<"b", "a">>}
ResendEvents ==
    {UpdateEvent("text_delta", d, <<>>, 0) : d \in ResendDeltas}
    \cup {UpdateEvent(type, d, t, 0) :
              type \in {"text_start", "text_end"}, d \in {<<>>, <<"a">>},
              t \in ResendContents}

ResendUpdate ==
    /\ phase = "streaming"
    /\ updates < MaxUpdates
    /\ \E evt \in ResendEvents :
        /\ event' = evt
        /\ ctx' = handleMessageUpdate(ctx, evt)
        /\ Record(evt)
    /\ updates' = updates + 1
    /\ UNCHANGED <<twin, phase>>
    /\ UNCHANGED log

NextResend == MessageStart \/ ResendUpdate \/ MessageEnd

SpecResend == Init /\ [][NextResend]_vars

(***************************************************************************)
(* Blocks whose text carries reply directives, directive brackets split    *)
(* across deltas, white space and think tags, on content indexes 0 and 1.  *)
(***************************************************************************)
DirectiveDeltas ==
    {<<"a">>, <<"a", "[">>, <<"[">>, <<"]", "]">>, <<"M">>, <<"V">>, <<" ">>,
     <<"T">>}
DirectiveIndexes == 0..1
DirectiveEvents ==
    {UpdateEvent("text_delta", d, <<>>, i) :
         d \in DirectiveDeltas, i \in DirectiveIndexes}
    \cup {UpdateEvent("text_start", <<>>, <<>>, i) : i \in DirectiveIndexes}
    \cup {UpdateEvent("text_end", <<>>, t, i) :
              t \in {<<>>, <<"a">>}, i \in DirectiveIndexes}

DirectiveUpdate ==
    /\ phase = "streaming"
    /\ updates < MaxUpdates
    /\ \E evt \in DirectiveEvents :
        /\ event' = evt
        /\ ctx' = handleMessageUpdate(ctx, evt)
        /\ Record(evt)
    /\ updates' = updates + 1
    /\ UNCHANGED <<twin, phase, log>>

NextDirectives == MessageStart \/ DirectiveUpdate \/ MessageEnd

SpecDirectives == Init /\ [][NextDirectives]_vars

(***************************************************************************)
(* Messages that carry reasoning, with reasoning block replies switched on *)
(* or off: message_start, streamed text on two content indexes, and        *)
(* message_end with a final message whose text holds a thinking span.     *)
(* The session sends the events in any order, a second message_end        *)
(* without a message_start included; log keeps the events handled so far. *)
(***************************************************************************)
MaxReasoningEvents == 3  \* update and end events of a run with reasoning

ReasoningConfigurations ==
    [blockReplyBreak : {"text_end", "message_end"},
     blockChunking : {FALSE},
     onBlockReply : BOOLEAN,
     includeReasoning : BOOLEAN,
     streamReasoning : BOOLEAN,
     sentTexts : {{}}]

InitReasoning ==
    /\ ctx \in {NewContext(cfg) : cfg \in ReasoningConfigurations}
    /\ twin = ctx
    /\ event = NoEvent
    /\ phase = "idle"
    /\ updates = 0
    /\ streamed = NothingStreamed
    /\ seen = {}
    /\ closed = {}
    /\ orderly = TRUE
    /\ log = <<>>

ReasoningMessages ==
    {<<>>,
     <<TextBlock(<<"a">>)>>,
     <<TextBlock(<<"T", "r", "t", "a">>)>>,
     <<TextBlock(<<"T", "s", "t", "a">>)>>,
     <<TextBlock(<<"T", "r", "t">>)>>}

ReasoningStart ==
    /\ phase # "streaming"
    /\ event' = StartEvent("assistant")
    /\ ctx' = NewMessage(handleMessageStart(ctx, event'))
    /\ phase' = "streaming"
    /\ log' = Append(log, [to |-> 1, evt |-> event'])
    /\ UNCHANGED <<twin, updates, history>>

ReasoningUpdate ==
    /\ phase = "streaming"
    /\ updates < MaxReasoningEvents
    /\ \E evt \in {UpdateEvent("text_delta", d, <<>>, i) :
                       d \in {<<"a">>, <<"[", "[">>}, i \in 0..1}
                      \cup {UpdateEvent("text_end", <<>>, <<>>, i) : i \in 0..1} :
        /\ event' = evt
        /\ ctx' = handleMessageUpdate(ctx, evt)
        /\ log' = Append(log, [to |-> 1, evt |-> evt])
    /\ updates' = updates + 1
    /\ UNCHANGED <<twin, phase, history>>

ReasoningEnd ==
    /\ phase # "idle"
    /\ updates < MaxReasoningEvents
    /\ \E message \in ReasoningMessages :
        /\ event' = EndEvent("assistant", message)
        /\ ctx' = handleMessageEnd(ctx, event')
        /\ log' = Append(log, [to |-> 1, evt |-> event'])
    /\ phase' = "ended"
    /\ updates' = updates + 1
    /\ UNCHANGED <<twin, history>>

NextReasoning == ReasoningStart \/ ReasoningUpdate \/ ReasoningEnd

SpecReasoning == InitReasoning /\ [][NextReasoning]_vars

(***************************************************************************)
(* Two runs of one message under the same configuration: ctx and twin are  *)
(* the contexts of the two runs.  Both get the message_start and, at the   *)
(* end, the same final message; in between each run gets message_update    *)
(* events of its own, so the streamed text of the two runs differs.        *)
(***************************************************************************)
MaxRunEvents == 3  \* message_update events of the two runs together

RunConfigurations ==
    [blockReplyBreak : {"text_end", "message_end"},
     blockChunking : BOOLEAN,
     onBlockReply : {TRUE},
     includeReasoning : {FALSE},
     streamReasoning : {FALSE},
     sentTexts : {{}}]

InitRuns ==
    /\ ctx \in {NewContext(cfg) : cfg \in RunConfigurations}
    /\ twin = ctx
    /\ event = NoEvent
    /\ phase = "idle"
    /\ updates = 0
    /\ streamed = NothingStreamed
    /\ seen = {}
    /\ closed = {}
    /\ orderly = TRUE
    /\ log = <<>>

RunsStart ==
    /\ phase = "idle"
    /\ event' = StartEvent("assistant")
    /\ ctx' = NewMessage(handleMessageStart(ctx, event'))
    /\ twin' = NewMessage(handleMessageStart(twin, event'))
    /\ phase' = "streaming"
    /\ UNCHANGED <<updates, history, log>>

RunsUpdate ==
    /\ phase = "streaming"
    /\ updates < MaxRunEvents
    /\ \E run \in 1..2,
          evt \in {UpdateEvent("text_delta", d, <<>>, i) : d \in TextDeltas, i \in 0..1}
                      \cup {UpdateEvent("text_end", <<>>, <<>>, i) : i \in 0..1} :
        /\ event' = evt
        /\ ctx' = IF run = 1 THEN handleMessageUpdate(ctx, evt) ELSE ctx
        /\ twin' = IF run = 2 THEN handleMessageUpdate(twin, evt) ELSE twin
    /\ updates' = updates + 1
    /\ UNCHANGED <<phase, history, log>>

RunsEnd ==
    /\ phase = "streaming"
    /\ \E message \in {<<>>, <<TextBlock(<<"a">>)>>, <<TextBlock(<<"a", "b">>)>>,
                          <<TextBlock(<<"a">>), TextBlock(<<"b">>)>>} :
        /\ event' = EndEvent("assistant", message)
        /\ ctx' = handleMessageEnd(ctx, event')
        /\ twin' = handleMessageEnd(twin, event')
    /\ phase' = "ended"
    /\ UNCHANGED <<updates, history, log>>

NextRuns == RunsStart \/ RunsUpdate \/ RunsEnd

SpecRuns == InitRuns /\ [][NextRuns]_vars

(***************************************************************************)
(* stripTrailingDirective on its own: log starts as one input text and     *)
(* each step applies the function to the last text of log and appends the  *)
(* result, so log is <<input, result, result of the result>>.              *)
(***************************************************************************)
MaxStripLen == 6       \* longest input text of stripTrailingDirective
MaxApplications == 2   \* applications of stripTrailingDirective in a row

RECURSIVE TextsUpTo(_)
\* the texts of length at most n over the letter a and the two brackets
TextsUpTo(n) ==
    IF n = 0 THEN {<<>>}
    ELSE TextsUpTo(n - 1)
             \cup {Append(t, ch) : t \in {u \in TextsUpTo(n - 1) : Len(u) = n - 1},
                                    ch \in {"a", "[", "]"}}

InitStrip ==
    /\ ctx = NewContext(CHOOSE cfg \in Configurations : cfg.blockReplyBreak = "text_end")
    /\ twin = ctx
    /\ event = NoEvent
    /\ phase = "idle"
    /\ updates = 0
    /\ streamed = NothingStreamed
    /\ seen = {}
    /\ closed = {}
    /\ orderly = TRUE
    /\ log \in {<<text>> : text \in TextsUpTo(MaxStripLen)}

ApplyStrip ==
    /\ Len(log) <= MaxApplications
    /\ log' = Append(log, stripTrailingDirective(log[Len(log)]))
    /\ UNCHANGED <<ctx, twin, event, phase, updates, history>>

NextStrip == ApplyStrip

SpecStrip == InitStrip /\ [][NextStrip]_vars

(***************************************************************************)
(* Events as the provider sends them: the contentIndex field is a number,  *)
(* negative ones included, a string, or absent.  log holds the field of    *)
(* the last message_update as sent; event holds the index the handler      *)
(* reads from it.                                                          *)
(***************************************************************************)
MaxRawEvents == 3   \* message_update events of a run with raw indexes

\* the string "1" and the absent field
RawIndexes ==
    {[type |-> "number", value |-> n] : n \in -2..1}
        \cup {[type |-> "string", value |-> 1], [type |-> "undefined", value |-> 0]}

\* variant that reads a field that is not a number as index 0
ContentIndexOf_Zero(raw) == IF raw.type = "number" THEN raw.value ELSE 0

\* the contentIndex of the event record, -1 when the field is not a number
ContentIndexOf(raw) == IF raw.type = "number" THEN raw.value ELSE -1

RawUpdate ==
    /\ phase = "streaming"
    /\ updates < MaxRawEvents
    /\ \E raw \in RawIndexes :
        /\ log' = <<raw>>
        /\ \E evt \in {UpdateEvent("text_delta", d, <<>>, ContentIndexOf(raw)) :
                           d \in TextDeltas}
                          \cup {UpdateEvent("text_start", <<>>, <<>>, ContentIndexOf(raw))}
                          \cup {UpdateEvent("text_end", <<>>, t, ContentIndexOf(raw)) :
                                    t \in {<<>>, <<"a">>}} :
            /\ event' = evt
            /\ ctx' = handleMessageUpdate(ctx, evt)
            /\ Record(evt)
    /\ updates' = updates + 1
    /\ UNCHANGED <<twin, phase>>

NextRaw == MessageStart \/ RawUpdate \/ MessageEnd

SpecRaw == Init /\ [][NextRaw]_vars

(***************************************************************************)
(* Claims.                                                                 *)
(***************************************************************************)
\* the state is inside a message or right after its message_end
WithinMessage == phase = "streaming" \/ event.kind = "message_end"

Last(s) == s[Len(s)]

Texts(records) == [i \in 1..Len(records) |-> records[i].text]

\* C1: within one message every live update's text has the text of the
\* previous live update as a prefix, the fallback update of message_end included.
C1_LiveUpdatesMonotone ==
    WithinMessage =>
        \A i \in 2..Len(ctx.agentEvents) :
            StartsWith(ctx.agentEvents[i].text, ctx.agentEvents[i - 1].text)

\* C2: a text sub-event whose contentIndex is below the current block index
\* changes nothing in the context and emits nothing.
C2_LateEventDiscarded ==
    [][(/\ event'.kind = "message_update"
        /\ event'.contentIndex >= 0
        /\ event'.contentIndex < ctx.currentTextContentIndex) => ctx' = ctx]_vars

\* a late text_end that resends the content of a closed block was handled
C2_Witness ==
    /\ event.kind = "message_update"
    /\ event.type = "text_end"
    /\ event.content # <<>>
    /\ event.contentIndex >= 0
    /\ event.contentIndex < ctx.currentTextContentIndex
    /\ ctx.deltaBuffer # <<>>


\* the visible text of a block of plain text, as a block reply carries it
Delivered(i) == TrimEnd(streamed[i])

\* the block replies due for the closed blocks from index i on, in block
\* order; with dedup, a block whose text repeats the reply before it has none
RECURSIVE RepliesDue(_, _, _)
RepliesDue(i, last, dedup) ==
    IF i > MaxIndex + 1 THEN <<>>
    ELSE LET due == /\ i \in closed
                    /\ Delivered(i) # <<>>
                    /\ (~dedup \/ Delivered(i) # last)
         IN  (IF due THEN <<Delivered(i)>> ELSE <<>>)
                 \o RepliesDue(i + 1, IF due THEN Delivered(i) ELSE last, dedup)

RECURSIVE NonEmptyBlocks(_)
NonEmptyBlocks(i) ==
    IF i > MaxIndex + 1 THEN <<>>
    ELSE (IF i \in closed /\ streamed[i] # <<>> THEN <<streamed[i]>> ELSE <<>>)
             \o NonEmptyBlocks(i + 1)

\* replies break at text_end and every block begun so far but the current
\* one is closed; after message_end, the last block is closed as well
BlocksDelivered ==
    /\ ctx.blockReplyBreak = "text_end"
    /\ orderly
    /\ \/ phase = "streaming"
       \/ event.kind = "message_end" /\ seen \subseteq closed

Unrelated(i, j) ==
    /\ i # j
    /\ Trim(streamed[i]) # <<>>
    /\ Trim(streamed[j]) # <<>>
    /\ ~Includes(streamed[i], Trim(streamed[j]))
    /\ ~Includes(streamed[j], Trim(streamed[i]))
    /\ \A k \in 0..(MaxIndex + 1) :
           ~(Includes(streamed[k], Trim(streamed[i]))
             /\ Includes(streamed[k], Trim(streamed[j])))

\* C4: no block reply of a message contains the text of two distinct blocks,
\* a reply sent by message_end included.
C4_NoCrossBlockBleed ==
    WithinMessage =>
        \A n \in 1..Len(ctx.blockReplies) :
            \A i, j \in 0..(MaxIndex + 1) :
                Unrelated(i, j) =>
                    ~(Includes(ctx.blockReplies[n].text, Trim(streamed[i]))
                      /\ Includes(ctx.blockReplies[n].text, Trim(streamed[j])))

Chars(s) == {s[i] : i \in 1..Len(s)} \ WhiteSpace

\* no character of the message occurs in two blocks
Distinctive ==
    \A i, j \in 0..(MaxIndex + 1) :
        i # j => Chars(streamed[i]) \cap Chars(streamed[j]) = {}

\* C5: within one message no block reply repeats text that an earlier block
\* reply of the message delivered, the reply of message_end included.
C5_RepliesDoNotOverlap ==
    (WithinMessage /\ Distinctive) =>
        \A m, n \in 1..Len(ctx.blockReplies) :
            m < n => Chars(ctx.blockReplies[m].text)
                         \cap Chars(ctx.blockReplies[n].text) = {}

\* C6: within one message no two block replies carry the same normalized text.
C6_NoRepeatedReply ==
    WithinMessage =>
        \A m, n \in 1..Len(ctx.blockReplies) :
            m < n => normalizeTextForComparison(ctx.blockReplies[m].text)
                         # normalizeTextForComparison(ctx.blockReplies[n].text)

\* the text an event brings to a block that holds nothing yet
Brought(evt) == IF evt.delta # <<>> THEN evt.delta ELSE evt.content

\* the event about to be handled opens a block on a higher index while the
\* message has shown text
OpensBlock ==
    /\ phase = "streaming"
    /\ event'.kind = "message_update"
    /\ ctx.currentTextContentIndex >= 0
    /\ event'.contentIndex > ctx.currentTextContentIndex
    /\ ctx.cumulativeStreamedText # <<>>

\* a message of two blocks, each with visible text, shows the first block's
\* text, a newline and the second block's text
TwoBlocksJoined ==
    (/\ phase = "streaming"
     /\ Cardinality(seen) = 2
     /\ \A i \in seen : Trim(streamed[i]) # <<>>)
        => ctx.cumulativeStreamedText =
               Trim(streamed[Min(seen)]) \o <<"\n">> \o Trim(streamed[Max(seen)])

EndsWith(s, p) == Len(p) <= Len(s) /\ SubSeq(s, Len(s) - Len(p) + 1, Len(s)) = p

\* C8: the cumulative text joins the texts of successive blocks by exactly one
\* newline, empty blocks between them adding none, and ends with no separator
\* at message end (no streamed text holds a newline of its own).
C8_SingleSeparator ==
    WithinMessage =>
        /\ ~Includes(ctx.cumulativeStreamedText, <<"\n", "\n">>)
        /\ event.kind = "message_end"
               => ~EndsWith(ctx.cumulativeStreamedText, <<"\n">>)

Outputs(c) ==
    <<c.agentEvents, c.partialReplies, c.blockReplies, c.reasoningStream,
      c.assistantTexts>>

\* C9: a stream without contentIndex yields the same live updates, block
\* replies, reasoning updates and assistantTexts as the same stream with
\* contentIndex 0 on every event, and neither run meets a block boundary.
C9_IndexlessIsIndexZero ==
    [][/\ Outputs(ctx') = Outputs(twin')
       /\ event'.kind = "message_update"
              => /\ ~IsBlockBoundary(ctx, event'.contentIndex)
                 /\ ~IsBlockBoundary(twin, 0)]_vars

\* both runs delivered a block reply and two live updates of one message
C9_Witness ==
    /\ twin.currentTextContentIndex = 0
    /\ ctx.currentTextContentIndex = -1
    /\ Len(ctx.agentEvents) >= 2
    /\ Len(ctx.blockReplies) >= 1
    /\ event.type = "text_end"

\* C10: no event but message_start lowers the current block index, whatever
\* contentIndex it carries, and the index is -1 exactly until the message has
\* had an event with a contentIndex of 0 or more.
C10_IndexNeverDecreases ==
    [][/\ event'.kind # "message_start"
              => ctx'.currentTextContentIndex >= ctx.currentTextContentIndex
       /\ (ctx'.currentTextContentIndex = -1) <=> (seen' = {})]_vars

\* the index rose twice and an event of a lower index came after
C10_Witness ==
    /\ Cardinality(seen) >= 2
    /\ ctx.currentTextContentIndex = MaxIndex
    /\ event.kind = "message_update"
    /\ event.contentIndex = 0

\* what message_end takes as the cleaned text and media of a final message
FinalOf(message) ==
    FinalCleaned(
        extractAssistantText(promoteThinkingTagsToBlocks(message)),
        stripBlockTags(extractAssistantText(promoteThinkingTagsToBlocks(message)),
                       InitialTagState).text)

HasFinalOutput(message) ==
    FinalOf(message).cleanedText # <<>> \/ FinalOf(message).mediaUrls > 0

\* C11: when an assistant message_end has been handled and the final message
\* has cleaned text or media, the message has had at least one live update,
\* whatever update events came before the message_end.
C11_LiveUpdateByMessageEnd ==
    (event.kind = "message_end" /\ event.role = "assistant"
         /\ HasFinalOutput(event.message))
        => Len(ctx.agentEvents) >= 1

\* a message of message_start and message_end alone got its one live update
C11_Witness ==
    /\ event.kind = "message_end"
    /\ event.role = "assistant"
    /\ seen = {}
    /\ streamed = NothingStreamed
    /\ FinalOf(event.message).mediaUrls > 0
    /\ Len(ctx.agentEvents) = 1

\* C12: message_end emits a live update of its own only if the message has
\* had no live update before; after any live update of the message, in
\* whatever block, message_end emits none.
C12_FallbackOnlyWithoutLiveUpdate ==
    [][(event'.kind = "message_end" /\ event'.role = "assistant"
            /\ phase = "streaming" /\ Len(ctx.agentEvents) >= 1)
           => ctx'.agentEvents = ctx.agentEvents]_vars

\* C13: a message of message_start and message_end alone, whose final text T
\* is not empty, gets exactly one live update and exactly one block reply,
\* both with text T, under either blockReplyBreak setting.
C13_UnstreamedMessageDelivered ==
    [][(event.kind = "message_start" /\ event.role = "assistant"
            /\ event'.kind = "message_end" /\ event'.role = "assistant"
            /\ FinalOf(event'.message).cleanedText # <<>>
            /\ FinalOf(event'.message).mediaUrls = 0)
           => /\ Texts(ctx'.agentEvents) = <<FinalOf(event'.message).cleanedText>>
              /\ Texts(ctx'.blockReplies) = <<FinalOf(event'.message).cleanedText>>]_vars

\* the text a text_start or text_end event adds to a block whose buffer is
\* buffer: its delta, else what its content has beyond the buffer
Resent(buffer, evt) ==
    CASE evt.delta # <<>> -> evt.delta
      [] evt.delta = <<>> /\ evt.content = <<>> -> <<>>
      [] evt.delta = <<>> /\ evt.content # <<>> /\ StartsWith(evt.content, buffer) ->
             SubSeq(evt.content, Len(buffer) + 1, Len(evt.content))
      [] evt.delta = <<>> /\ evt.content # <<>> /\ ~StartsWith(evt.content, buffer)
             /\ Occurrences(buffer, evt.content) # {} -> <<>>
      [] evt.delta = <<>> /\ evt.content # <<>> /\ ~StartsWith(evt.content, buffer)
             /\ Occurrences(buffer, evt.content) = {} -> evt.content

\* C14: a text_delta event adds its delta to deltaBuffer; a text_start or
\* text_end event adds its delta when it has one, and otherwise, of its
\* content, the suffix beyond deltaBuffer when the content starts with
\* deltaBuffer, nothing when deltaBuffer starts with or contains the content,
\* and the whole content when deltaBuffer does not contain it. A text_end that
\* resends the streamed text with more text behind it appends exactly that suffix
\* and yields one live update whose delta is the suffix.
C14_ChunkExtraction ==
    [][(event'.kind = "message_update" /\ phase = "streaming")
           => /\ ctx'.deltaBuffer =
                     ctx.deltaBuffer \o (IF event'.type = "text_delta" THEN event'.delta
                                         ELSE Resent(ctx.deltaBuffer, event'))
              /\ (/\ event'.type = "text_end"
                  /\ event'.delta = <<>>
                  /\ ctx.deltaBuffer # <<>>
                  /\ StartsWith(event'.content, ctx.deltaBuffer)
                  /\ event'.content # ctx.deltaBuffer)
                     => /\ Len(ctx'.agentEvents) = Len(ctx.agentEvents) + 1
                        /\ Last(ctx'.agentEvents).text = event'.content
                        /\ Last(ctx'.agentEvents).delta =
                               SubSeq(event'.content, Len(ctx.deltaBuffer) + 1,
                                      Len(event'.content))]_vars

\* after the delta "a", a text_end resent "ab" and the live update's delta was "b"
C14_Witness ==
    /\ event.type = "text_end"
    /\ event.delta = <<>>
    /\ event.content = <<"a", "b">>
    /\ streamed[0] = <<"a", "b">>
    /\ ctx.deltaBuffer = <<"a", "b">>
    /\ Len(ctx.agentEvents) = 2
    /\ Last(ctx.agentEvents).delta = <<"b">>
    /\ updates = 2

RECURSIVE StreamedFrom(_)
\* the text streamed in the current message from block i on, in block order
StreamedFrom(i) ==
    IF i > MaxIndex + 1 THEN <<>> ELSE streamed[i] \o StreamedFrom(i + 1)

Visible(text) == Filter(text, WhiteSpace)

\* C15: an assistant message_start sets the block index to -1, empties
\* deltaBuffer, blockBuffer and the cumulative text, unsets the last cleaned
\* text, clears the live-update flag, sets assistantTextBaseline to the length
\* of assistantTexts and leaves assistantTexts alone; every live update of the
\* message that follows shows only text streamed in that message.
C15_MessageStartResets ==
    [][/\ (event'.kind = "message_start" /\ event'.role = "assistant")
              => /\ ctx'.currentTextContentIndex = -1
                 /\ ctx'.deltaBuffer = <<>>
                 /\ ctx'.blockBuffer = <<>>
                 /\ ctx'.cumulativeStreamedText = <<>>
                 /\ ctx'.lastStreamedAssistantCleaned = Undefined
                 /\ ctx'.emittedAssistantUpdate = FALSE
                 /\ ctx'.assistantTextBaseline = Len(ctx.assistantTexts)
                 /\ ctx'.assistantTexts = ctx.assistantTexts
       /\ phase' = "streaming"
              => \A i \in 1..Len(ctx'.agentEvents) :
                     StartsWith(Visible(StreamedFrom(-1))', Visible(ctx'.agentEvents[i].text))]_vars

\* the second message of a session has shown text of its own
C15_Witness ==
    /\ phase = "streaming"
    /\ event.kind = "message_update"
    /\ ctx.assistantTextBaseline >= 1
    /\ Len(ctx.agentEvents) >= 1
    /\ Last(ctx.agentEvents).text = <<"a", "b">>

\* C16: after an assistant message_end, deltaBuffer and blockBuffer are empty,
\* the chunker holds nothing, the last streamed texts are unset, and the
\* message-wide and the per-block tag state are both in their initial state.
C16_MessageEndResets ==
    (event.kind = "message_end" /\ event.role = "assistant")
        => /\ ctx.deltaBuffer = <<>>
           /\ ctx.blockBuffer = <<>>
           /\ ctx.chunkerBuffer = <<>>
           /\ ctx.lastStreamedAssistant = Undefined
           /\ ctx.lastStreamedAssistantCleaned = Undefined
           /\ ctx.blockState = InitialTagState
           /\ ctx.partialBlockState = InitialTagState

\* C17: assistantTexts only grows at its end: after any event its previous
\* value is a prefix of its new value.
C17_AssistantTextsAppendOnly ==
    [][StartsWith(ctx'.assistantTexts, ctx.assistantTexts)]_vars

\* a second message has added its entry behind the entry of the first
C17_Witness ==
    /\ event.kind = "message_end"
    /\ event.role = "assistant"
    /\ Len(ctx.assistantTexts) >= 2
    /\ ctx.assistantTextBaseline = Len(ctx.assistantTexts)
    /\ ctx.assistantTexts[1] # ctx.assistantTexts[2]

\* the text message_end takes from a final message
FinalText(message) ==
    stripBlockTags(extractAssistantText(promoteThinkingTagsToBlocks(message)),
                   InitialTagState).text

\* the message so far is one orderly block whose text is T
SingleBlock(T) ==
    /\ orderly
    /\ Cardinality(seen) = 1
    /\ \E k \in seen : streamed[k] = T

\* C18: message_end appends the final text to assistantTexts exactly when the
\* message has added no entry so far, the chunker holds nothing and the text
\* is not empty; so a message of one block with text T (T taken without
\* surrounding whitespace) leaves exactly one new entry T, under either
\* blockReplyBreak setting.
C18_FinalTextAppendedOnce ==
    [][(event'.kind = "message_end" /\ event'.role = "assistant")
           => /\ (/\ Len(ctx.assistantTexts) = ctx.assistantTextBaseline
                  /\ ~ChunkerHasBuffered(ctx)
                  /\ FinalText(event'.message) # <<>>)
                     => ctx'.assistantTexts =
                            Append(ctx.assistantTexts, FinalText(event'.message))
              /\ (/\ ~ChunkerHasBuffered(ctx)
                  /\ \/ Len(ctx.assistantTexts) # ctx.assistantTextBaseline
                     \/ FinalText(event'.message) = <<>>)
                     => ctx'.assistantTexts = ctx.assistantTexts
              /\ \A T \in {streamed[k] : k \in seen} :
                     (/\ SingleBlock(T)
                      /\ T # <<>>
                      /\ Trim(T) = T
                      /\ event'.message = <<TextBlock(T)>>)
                         => /\ Len(ctx'.assistantTexts) = ctx.assistantTextBaseline + 1
                            /\ Last(ctx'.assistantTexts) = T]_vars

\* the chunker, where one is configured and drains while the block streams,
\* finds no chunk ready in any prefix of T
Unsplit(c, T) ==
    \/ ~c.blockChunking
    \/ c.blockReplyBreak = "message_end"
    \/ \A n \in 1..Len(T) : ReadyPrefix(SliceTo(T, n)) = 0

\* C18 (amended): message_end appends the final text to assistantTexts exactly
\* when the message has added no entry so far, the chunker holds nothing and
\* the text is not empty; a message of one block whose text T (taken without
\* surrounding whitespace) the chunker does not split leaves exactly one new
\* entry T, under either blockReplyBreak setting.
C18_UnsplitTextAppendedOnce ==
    [][(event'.kind = "message_end" /\ event'.role = "assistant")
           => /\ (/\ Len(ctx.assistantTexts) = ctx.assistantTextBaseline
                  /\ ~ChunkerHasBuffered(ctx)
                  /\ FinalText(event'.message) # <<>>)
                     => ctx'.assistantTexts =
                            Append(ctx.assistantTexts, FinalText(event'.message))
              /\ (/\ ~ChunkerHasBuffered(ctx)
                  /\ \/ Len(ctx.assistantTexts) # ctx.assistantTextBaseline
                     \/ FinalText(event'.message) = <<>>)
                     => ctx'.assistantTexts = ctx.assistantTexts
              /\ \A T \in {streamed[k] : k \in seen} :
                     (/\ SingleBlock(T)
                      /\ T # <<>>
                      /\ Trim(T) = T
                      /\ Unsplit(ctx, T)
                      /\ event'.message = <<TextBlock(T)>>)
                         => /\ Len(ctx'.assistantTexts) = ctx.assistantTextBaseline + 1
                            /\ Last(ctx'.assistantTexts) = T]_vars

\* a block flushed at its text_end: message_end added nothing to its one entry
C18_Witness ==
    /\ event.kind = "message_end"
    /\ event.role = "assistant"
    /\ ctx.blockReplyBreak = "text_end"
    /\ ctx.blockChunking
    /\ SingleBlock(<<"a", "b">>)
    /\ closed = seen
    /\ event.message = <<TextBlock(<<"a", "b">>)>>
    /\ ctx.assistantTexts = <<<<"a", "b">>>>

\* C19: a message_start, message_update or message_end of a message whose
\* role is not assistant changes no field of the state and produces no live
\* update, block reply, reasoning update or assistantTexts entry.
C19_OtherRolesIgnored ==
    [][event'.role # "assistant" => ctx' = ctx]_vars

\* a user message's message_end arrived in the middle of an assistant message
\* and left its buffered text and its live update alone
C19_Witness ==
    /\ event.kind = "message_end"
    /\ event.role = "user"
    /\ phase = "streaming"
    /\ ctx.deltaBuffer # <<>>
    /\ ctx.currentTextContentIndex = 0
    /\ Len(ctx.agentEvents) = 1
    /\ ctx.assistantTexts = <<>>

\* C20: a message_update whose sub-event type is missing or is none of
\* text_start, text_delta and text_end changes no field of the state, not even
\* when its contentIndex is above the current block index, and produces no
\* live update and no block reply.
C20_OtherTypesIgnored ==
    [][(event'.kind = "message_update" /\ event'.role = "assistant"
            /\ event'.type \notin {"text_start", "text_delta", "text_end"})
           => ctx' = ctx]_vars

\* a thinking delta with a higher contentIndex arrived while block 0 had
\* pending text, and the block index stayed 0
C20_Witness ==
    /\ event.kind = "message_update"
    /\ event.type = "thinking_delta"
    /\ event.contentIndex = MaxIndex
    /\ ctx.currentTextContentIndex = 0
    /\ ctx.deltaBuffer # <<>>
    /\ Len(ctx.agentEvents) = 1

\* the configuration a context was created with
ConfigOf(c) ==
    [blockReplyBreak |-> c.blockReplyBreak,
     blockChunking |-> c.blockChunking,
     onBlockReply |-> c.onBlockReply,
     includeReasoning |-> c.includeReasoning,
     streamReasoning |-> c.streamReasoning,
     sentTexts |-> {}]

\* the events of the log that were sent to subscription s, in order
EventsOf(s) == SelectSeq(log, LAMBDA entry : entry.to = s)

RECURSIVE Alone(_, _, _)
\* the context a subscription has after the first n of these events and no others
Alone(c, entries, n) ==
    IF n = 0 THEN c ELSE Dispatch(Alone(c, entries, n - 1), entries[n].evt)

AfterFlush(c, buf) ==
    IF TrimEnd(buf) = <<>> \/ TrimEnd(buf) = c.lastBlockReplyText
        THEN Texts(c.blockReplies)
    ELSE Append(Texts(c.blockReplies), TrimEnd(buf))

\* the step handles a text event of the assistant that is not late
TextStep == /\ event'.kind = "message_update"
            /\ event'.role = "assistant"
            /\ event'.type \in TextEventTypes
            /\ ~IsLateEvent(ctx, event'.contentIndex)

\* C22: a forced drain of the chunker (block boundary, text_end, message_end)
\* emits all the text the chunker holds, also when it is shorter than
\* minChars, and leaves the chunker with nothing buffered; it never emits an
\* empty chunk, and on an empty chunker it emits nothing.
C22_ForcedDrainEmitsAll ==
    [][ctx.blockChunking
           => /\ (TextStep /\ IsBlockBoundary(ctx, event'.contentIndex))
                     => /\ StartsWith(Texts(ctx'.blockReplies),
                                      AfterFlush(ctx, ctx.chunkerBuffer))
                        /\ EndsWith(ExtractChunk(<<>>, event'), ctx'.chunkerBuffer)
              /\ (TextStep /\ event'.type = "text_end"
                      /\ ctx.blockReplyBreak = "text_end")
                     => ~ChunkerHasBuffered(ctx')
              /\ (TextStep /\ event'.type = "text_end"
                      /\ ctx.blockReplyBreak = "text_end"
                      /\ ~IsBlockBoundary(ctx, event'.contentIndex)
                      /\ Len(ctx.chunkerBuffer) < MinChars
                      /\ ExtractChunk(ctx.deltaBuffer, event') = <<>>)
                     => Texts(ctx'.blockReplies) = AfterFlush(ctx, ctx.chunkerBuffer)
              /\ (event'.kind = "message_end" /\ event'.role = "assistant"
                      /\ FinalText(event'.message) # <<>>)
                     => /\ ~ChunkerHasBuffered(ctx')
                        /\ ChunkerHasBuffered(ctx)
                               => Texts(ctx'.blockReplies) =
                                      AfterFlush(ctx, ctx.chunkerBuffer)
              /\ \A i \in 1..Len(ctx'.blockReplies) :
                     \/ ctx'.blockReplies[i].text # <<>>
                     \/ ctx'.blockReplies[i].mediaUrls > 0
                     \/ ctx'.blockReplies[i].audioAsVoice]_vars

\* a text_end drained a chunker that held less than minChars
C22_Witness ==
    /\ ctx.blockChunking
    /\ ctx.blockReplyBreak = "text_end"
    /\ event.type = "text_end"
    /\ streamed[0] = <<"a">>
    /\ Len(streamed[0]) < MinChars
    /\ Texts(ctx.blockReplies) = <<<<"a">>>>
    /\ ctx.chunkerBuffer = <<>>

\* the step handles a text event that moves to another content index
BoundaryStep == TextStep /\ IsBlockBoundary(ctx, event'.contentIndex)

\* the step handles the first text event of the message that has an index
FirstIndexedStep ==
    TextStep /\ ctx.currentTextContentIndex = -1 /\ event'.contentIndex >= 0

Pending(c) == IF c.blockChunking THEN c.chunkerBuffer ELSE c.blockBuffer

\* C24: the event that moves to another content index delivers the text
\* pending for the previous block before it buffers text of the new block:
\* the chunker is drained by force and reset, or without a chunker the block
\* buffer is emitted and cleared; after the event the pending text is text of
\* the new block only, and an empty text_start on the new index already
\* delivers the previous block's text.
C24_BoundaryFlushesFirst ==
    [][BoundaryStep
           => /\ StartsWith(Texts(ctx'.blockReplies), AfterFlush(ctx, Pending(ctx)))
              /\ EndsWith(ExtractChunk(<<>>, event'), Pending(ctx'))
              /\ ExtractChunk(<<>>, event') = <<>>
                     => /\ Texts(ctx'.blockReplies) = AfterFlush(ctx, Pending(ctx))
                        /\ Pending(ctx') = <<>>
                        /\ Len(ctx'.assistantTexts) - Len(ctx.assistantTexts)
                               = Len(ctx'.blockReplies) - Len(ctx.blockReplies)]_vars

\* an empty text_start on index 1 delivered block 0, though replies break at
\* message_end and no text_end had come
C24_Witness ==
    /\ event.type = "text_start"
    /\ event.contentIndex = 1
    /\ ctx.currentTextContentIndex = 1
    /\ ctx.blockReplyBreak = "message_end"
    /\ ~ctx.blockChunking
    /\ closed = {}
    /\ streamed[0] = <<"a", "b">>
    /\ Texts(ctx.blockReplies) = <<<<"a", "b">>>>
    /\ ctx.blockBuffer = <<>>

\* the callbacks the step has called, in call order
NewCalls == Slice(ctx'.calls, Len(ctx.calls))

\* the positions in a sequence of calls at which a callback was called
CallsOf(calls, callback) == {i \in 1..Len(calls) : calls[i].callback = callback}

\* C25: the callbacks are called in event order: what an event emits comes
\* after everything earlier events emitted; and within one message_update the
\* block reply that flushes the previous block comes before the live update
\* with the new block's text, which comes before the block reply that a
\* text_end flushes for the current block.
C25_CallsInEventOrder ==
    [][/\ event'.kind # "message_start"
              => /\ StartsWith(ctx'.calls, ctx.calls)
                 /\ StartsWith(ctx'.agentEvents, ctx.agentEvents)
                 /\ StartsWith(ctx'.blockReplies, ctx.blockReplies)
                 /\ StartsWith(ctx'.partialReplies, ctx.partialReplies)
       /\ event'.kind = "message_update"
              => /\ Cardinality(CallsOf(NewCalls, "onAgentEvent")) <= 1
                 /\ \A i \in CallsOf(NewCalls, "onBlockReply") :
                        \/ /\ BoundaryStep
                           /\ i = 1
                           /\ NewCalls[i].text = TrimEnd(ctx.blockBuffer)
                           /\ \A j \in CallsOf(NewCalls, "onAgentEvent") : i < j
                        \/ /\ event'.type = "text_end"
                           /\ i = Len(NewCalls)
                           /\ BoundaryStep
                                  => NewCalls[i].text = TrimEnd(ctx'.deltaBuffer)
                           /\ \A j \in CallsOf(NewCalls, "onAgentEvent") : j < i]_vars

\* one text_end on a new index flushed the previous block, streamed its own
\* text and flushed that as well
C25_Witness ==
    /\ event.type = "text_end"
    /\ Len(ctx.calls) >= 4
    /\ [i \in 1..4 |-> ctx.calls[Len(ctx.calls) - 4 + i].callback]
           = <<"onBlockReply", "onAgentEvent", "onPartialReply", "onBlockReply">>
    /\ Texts(ctx.blockReplies) = <<<<"a">>, <<"b">>>>
    /\ Last(ctx.agentEvents).text = <<"a", "\n", "b">>
    /\ updates = 2

\* C26: when replies break at text_end, a text_end that is not late leaves
\* nothing pending for block delivery: the chunker has nothing buffered, or
\* without a chunker the block buffer is empty; what was pending went out as
\* block replies.
C26_NothingPendingAfterTextEnd ==
    [][(TextStep /\ event'.type = "text_end" /\ ctx.blockReplyBreak = "text_end")
           => /\ ~ChunkerHasBuffered(ctx')
              /\ ctx'.blockBuffer = <<>>
              /\ Pending(ctx') = <<>>
              /\ ~BoundaryStep
                     => Texts(ctx'.blockReplies) = AfterFlush(ctx, Pending(ctx))]_vars

\* a text_end flushed a chunker that held less than minChars
C26_Witness ==
    /\ event.type = "text_end"
    /\ ctx.blockReplyBreak = "text_end"
    /\ ctx.blockChunking
    /\ ctx.deltaBuffer = <<"a">>
    /\ Len(ctx.deltaBuffer) < MinChars
    /\ Texts(ctx.blockReplies) = <<<<"a">>>>
    /\ ~ChunkerHasBuffered(ctx)
    /\ phase = "streaming"

\* the cleaned text of the block's buffered text (lines 257-268)
CleanedOf(deltaBuffer) ==
    parseReplyDirectives(
        stripTrailingDirective(
            Trim(stripBlockTags(deltaBuffer, InitialTagState).text))).text

\* the text streamed for the block before the step, once the step's block
\* boundary, if any, has cleared it
PreviousCleaned ==
    IF BoundaryStep THEN <<>> ELSE Str(ctx.lastStreamedAssistantCleaned)

\* the step computes a cleaned text that does not extend the non-empty text
\* streamed before it
RegressionStep ==
    /\ TextStep
    /\ Trim(stripBlockTags(ctx'.deltaBuffer, InitialTagState).text) # <<>>
    /\ PreviousCleaned # <<>>
    /\ ~StartsWith(CleanedOf(ctx'.deltaBuffer), PreviousCleaned)

\* C27: an event whose cleaned text does not start with the non-empty cleaned
\* text streamed before it emits no live update and no partial reply, and
\* leaves the cumulative text and emittedAssistantUpdate as they were.
C27_RegressionDiscarded ==
    [][RegressionStep
           => /\ ctx'.agentEvents = ctx.agentEvents
              /\ ctx'.partialReplies = ctx.partialReplies
              /\ CallsOf(NewCalls, "onAgentEvent") = {}
              /\ CallsOf(NewCalls, "onPartialReply") = {}
              /\ ctx'.cumulativeStreamedText = ctx.cumulativeStreamedText
              /\ ctx'.emittedAssistantUpdate = ctx.emittedAssistantUpdate]_vars

\* "a[" was streamed, then "[" completed a directive opener: the cleaned text
\* fell back to "a" and nothing was emitted for it
C27_Witness ==
    /\ event.kind = "message_update"
    /\ ctx.deltaBuffer = <<"a", "[", "[">>
    /\ ctx.lastStreamedAssistantCleaned = <<"a">>
    /\ ctx.cumulativeStreamedText = <<"a", "[">>
    /\ Len(ctx.agentEvents) = 1
    /\ ctx.emittedAssistantUpdate

\* the new text the step's event carries for its block
NewChunk == ExtractChunk(IF BoundaryStep THEN <<>> ELSE ctx.deltaBuffer, event')

\* the partial directive result for the visible part of the new chunk
PartialResult ==
    consumePartialReplyDirectives(
        stripBlockTags(NewChunk,
                       IF BoundaryStep THEN InitialTagState
                       ELSE ctx.partialBlockState).text)

\* read by itself, the new chunk shows no text, no media and no voice flag
AddsNothing ==
    LET shown == parseReplyDirectives(stripBlockTags(NewChunk, InitialTagState).text)
    IN  Trim(shown.text) = <<>> /\ shown.mediaUrls = 0 /\ ~shown.audioAsVoice

\* C28: a message_update emits a live update only if the delta text it
\* carries is non-empty, or the partial directive result for the new chunk
\* has a media attachment or the voice flag; an event that adds no visible
\* text, media or voice flag emits no live update and no partial reply and
\* does not set emittedAssistantUpdate.
C28_LiveUpdateNeedsContent ==
    [][event'.kind = "message_update"
           => /\ ctx'.agentEvents # ctx.agentEvents
                     => /\ TextStep
                        /\ Len(ctx'.agentEvents) = Len(ctx.agentEvents) + 1
                        /\ \/ Last(ctx'.agentEvents).delta # <<>>
                           \/ PartialResult.mediaUrls > 0
                           \/ PartialResult.audioAsVoice
              /\ (~TextStep \/ AddsNothing)
                     => /\ ctx'.agentEvents = ctx.agentEvents
                        /\ ctx'.partialReplies = ctx.partialReplies
                        /\ ctx'.emittedAssistantUpdate
                               => ctx.emittedAssistantUpdate]_vars

\* a media directive after "a" went out as a live update with an empty delta
C28_Witness ==
    /\ event.kind = "message_update"
    /\ event.delta = <<"M">>
    /\ ctx.deltaBuffer = <<"a", "M">>
    /\ Len(ctx.agentEvents) = 2
    /\ Last(ctx.agentEvents).delta = <<>>
    /\ Last(ctx.agentEvents).mediaUrls = 1
    /\ Last(ctx.agentEvents).text = <<"a">>

\* the part of the cumulative text added since the last block boundary or the
\* message start: what follows the last separator a boundary has put in (the
\* streamed text itself holds no line break)
AddedSinceBoundary(cumulative) ==
    Slice(cumulative, LastIndexOf(cumulative, <<"\n">>) + 1)

\* C29: after every emitted live update the part of the cumulative text
\* added since the last block boundary (or the message start) equals the
\* block's current cleaned text, so no text of the block is appended twice,
\* also when an earlier event of the block was suppressed as a regression.
C29_CumulativeMatchesCleaned ==
    [][(TextStep /\ ctx'.agentEvents # ctx.agentEvents)
           => AddedSinceBoundary(ctx'.cumulativeStreamedText)
                  = CleanedOf(ctx'.deltaBuffer)]_vars

\* the formatted reasoning of a final message (lines 455-472)
FormattedReasoningOf(c, message) ==
    LET content == promoteThinkingTagsToBlocks(message)
    IN  formatReasoningMessage(
            RawThinking(c, extractAssistantThinking(content),
                        extractAssistantText(content)))

\* the step is the message_end of an assistant message
EndStep == event'.kind = "message_end" /\ event'.role = "assistant"

\* the block replies of the step that carry its formatted reasoning
ReasoningReplies ==
    {i \in CallsOf(NewCalls, "onBlockReply") :
         NewCalls[i].text = FormattedReasoningOf(ctx, event'.message)}

\* the events handled since the last message_end, that one included
SinceLastEnd ==
    LET ends == {i \in 1..Len(log) : log[i].evt.kind = "message_end"}
    IN  IF ends = {} THEN <<>> ELSE SubSeq(log, Max(ends), Len(log))

\* the step ends a message whose formatted reasoning is that of the message
\* ended before it
RepeatsReasoning ==
    /\ EndStep
    /\ SinceLastEnd # <<>>
    /\ FormattedReasoningOf(ctx, event'.message) # <<>>
    /\ FormattedReasoningOf(ctx, SinceLastEnd[1].evt.message)
           = FormattedReasoningOf(ctx, event'.message)

\* a message_start has come since the last message_end
StartedSince ==
    \E i \in 1..Len(SinceLastEnd) : SinceLastEnd[i].evt.kind = "message_start"

\* at message_end the formatted reasoning goes out as a block reply at most
\* once, and only when it is non-empty, onBlockReply is configured and it
\* differs from lastReasoningSent; when it goes out, lastReasoningSent is set
\* to it
ReasoningGuarded ==
    EndStep
        => /\ Cardinality(ReasoningReplies) <= 1
           /\ ReasoningReplies # {}
                  => /\ FormattedReasoningOf(ctx, event'.message) # <<>>
                     /\ ctx.onBlockReply
                     /\ ctx.includeReasoning
                     /\ FormattedReasoningOf(ctx, event'.message)
                            # ctx.lastReasoningSent
                     /\ ctx'.lastReasoningSent
                            = FormattedReasoningOf(ctx, event'.message)
           /\ ReasoningReplies = {}
                  => ctx'.lastReasoningSent = ctx.lastReasoningSent

\* C30 as stated: at message_end formatted reasoning is emitted as a block
\* reply at most once, and only when it is non-empty, onBlockReply is
\* configured and it differs from lastReasoningSent; when emitted,
\* lastReasoningSent is set to it, so a following message with identical
\* formatted reasoning emits no reasoning block reply.
C30_ReasoningNeverRepeated ==
    [][/\ ReasoningGuarded
       /\ RepeatsReasoning => ReasoningReplies = {}]_vars

\* C30, amended: the guard holds as stated, and a message_end that repeats
\* the reasoning of the message_end before it emits no reasoning block reply
\* as long as no assistant message_start came in between; the message_start
\* of the following message clears lastReasoningSent, so that message emits
\* identical reasoning again whenever reasoning block replies are on.
C30_ReasoningRepeatedAfterStart ==
    [][/\ ReasoningGuarded
       /\ (RepeatsReasoning /\ ~StartedSince) => ReasoningReplies = {}
       /\ (RepeatsReasoning /\ StartedSince /\ ctx.includeReasoning
               /\ ctx.onBlockReply)
              => Cardinality(ReasoningReplies) = 1]_vars

\* the second of two messages with the same reasoning has delivered it again
C30_Witness ==
    /\ event.kind = "message_end"
    /\ Len(log) = 4
    /\ log[1].evt.kind = "message_start"
    /\ log[2].evt.kind = "message_end"
    /\ log[3].evt.kind = "message_start"
    /\ log[2].evt.message = log[4].evt.message
    /\ ctx.lastReasoningSent = <<"R", ":", "r">>
    /\ \E i \in 1..Len(ctx.calls) :
           ctx.calls[i] = [callback |-> "onBlockReply", text |-> <<"R", ":", "r">>]

\* the block replies of the step whose text is a formatted reasoning message
FormattedReplies ==
    {i \in CallsOf(NewCalls, "onBlockReply") :
         StartsWith(NewCalls[i].text, <<"R", ":">>)}

\* C31: reasoning outputs are gated by the configuration: message_update and
\* message_end emit no reasoning-stream update unless streamReasoning is on,
\* and no reasoning block reply unless includeReasoning is on, whatever
\* streamReasoning is.
C31_ReasoningGated ==
    [][event'.kind \in {"message_update", "message_end"}
           => /\ ~ctx.streamReasoning
                     => /\ ctx'.reasoningStream = ctx.reasoningStream
                        /\ CallsOf(NewCalls, "onReasoningStream") = {}
              /\ ~ctx.includeReasoning => FormattedReplies = {}
              /\ event'.kind = "message_update" => FormattedReplies = {}]_vars

\* with streamReasoning alone, message_end streamed the reasoning and
\* delivered the answer, and no reasoning block reply
C31_Witness ==
    /\ event.kind = "message_end"
    /\ ctx.streamReasoning
    /\ ~ctx.includeReasoning
    /\ ctx.reasoningStream # <<>>
    /\ Last(ctx.reasoningStream) = <<"R", ":", "a">>
    /\ ctx.blockReplies # <<>>
    /\ \A i \in 1..Len(ctx.blockReplies) :
           ~StartsWith(ctx.blockReplies[i].text, <<"R", ":">>)

\* the block replies of the step that carry answer text
AnswerReplies == CallsOf(NewCalls, "onBlockReply") \ FormattedReplies

\* the step is a message_end that emits a reasoning block reply and an
\* answer block reply
BothEmitted == EndStep /\ FormattedReplies # {} /\ AnswerReplies # {}

\* C32: when message_end emits both, the reasoning block reply precedes the
\* answer block reply exactly when blockReplyBreak is "message_end" and the
\* message has added no entry to assistantTexts; in every other case the
\* reasoning block reply comes after the answer block reply.
C32_ReasoningOrder ==
    [][BothEmitted
           => IF ctx.blockReplyBreak = "message_end" /\ ~AddedDuringMessage(ctx)
                  THEN \A r \in FormattedReplies, a \in AnswerReplies : r < a
              ELSE \A r \in FormattedReplies, a \in AnswerReplies : a < r]_vars

\* what a context has added to a sequence during the step
AddedTo(before, after) == Slice(after, Len(before))

\* neither run has flushed a block during the message
NothingFlushed ==
    /\ ~AddedDuringMessage(ctx) /\ ~AddedDuringMessage(twin)
    /\ ctx.blockReplies = <<>> /\ twin.blockReplies = <<>>

\* C33: the text outputs of message_end come from the final message only:
\* two runs with the same configuration and the same final message that
\* differ in their streamed text, neither having flushed a block, get the
\* same fallback live update (when both emit one), the same message_end
\* block replies and the same assistantTexts entries appended at message_end.
C33_EndOutputsFromFinalMessage ==
    [][(EndStep /\ NothingFlushed)
           => /\ (ctx'.agentEvents # ctx.agentEvents
                     /\ twin'.agentEvents # twin.agentEvents)
                     => AddedTo(ctx.agentEvents, ctx'.agentEvents)
                            = AddedTo(twin.agentEvents, twin'.agentEvents)
              /\ Texts(ctx'.blockReplies) = Texts(twin'.blockReplies)
              /\ AddedTo(ctx.assistantTexts, ctx'.assistantTexts)
                     = AddedTo(twin.assistantTexts, twin'.assistantTexts)]_vars

\* the text has a "]]" after its last "[["
ClosedAfterLastOpener(text) ==
    \E j \in Occurrences(text, <<"]", "]">>) : j > LastIndexOf(text, <<"[", "[">>)

\* C34: stripTrailingDirective returns its input unchanged when the input
\* holds no "[[" or when a "]]" occurs after the last "[["; otherwise it
\* returns the input cut just before the last "[[".  The result is always a
\* prefix of the input.
C34_StripTrailingDirective ==
    Len(log) >= 2
        => /\ StartsWith(log[1], log[2])
           /\ IF Occurrences(log[1], <<"[", "[">>) = {} \/ ClosedAfterLastOpener(log[1])
                  THEN log[2] = log[1]
              ELSE log[2] = SubSeq(log[1], 1, Max(Occurrences(log[1], <<"[", "[">>)))

\* a closed directive followed by an open one: cut before the open one
C34_Witness ==
    /\ Len(log) >= 2
    /\ log[1] = <<"[", "[", "]", "]", "[">> \o <<"[">>
    /\ log[2] = <<"[", "[", "]", "]">>

\* the text holds a "[[" with no "]]" after it
HasOpenDirective(text) ==
    \E i \in Occurrences(text, <<"[", "[">>) :
        \A j \in Occurrences(text, <<"]", "]">>) : j < i

\* C35: stripTrailingDirective is idempotent and its result holds no
\* unterminated directive opener: applied twice it gives what it gives
\* applied once, and in the result every "[[" is followed later by a "]]".
C35_StripIdempotent ==
    /\ Len(log) >= 2 => ~HasOpenDirective(log[2])
    /\ Len(log) >= 3 => log[3] = log[2]

\* the step handles, after message_end and before the next message_start,
\* a text_end on the current block's index or without an index that resends
\* the whole text streamed for that block
LateResendStep ==
    /\ phase = "ended"
    /\ TextStep
    /\ event'.type = "text_end"
    /\ event'.delta = <<>>
    /\ event'.contentIndex \in {ctx.currentTextContentIndex, -1}
    /\ event'.content = streamed[Top]

\* C36: a late text_end that arrives after message_end and before the next
\* message_start, on the current block's index or without an index, and
\* resends that block's full content, produces no live update and no block
\* reply and does not change the cumulative text.
C36_LateResendAfterEndIgnored ==
    [][LateResendStep
           => /\ ctx'.agentEvents = ctx.agentEvents
              /\ ctx'.blockReplies = ctx.blockReplies
              /\ ctx'.cumulativeStreamedText = ctx.cumulativeStreamedText]_vars

\* the text is made of "\n" separators only
OnlySeparators(text) == \A i \in 1..Len(text) : text[i] = "\n"

\* the text of the last live update of the message, empty when there is none
LastLiveText(c) == IF c.agentEvents = <<>> THEN <<>> ELSE Last(c.agentEvents).text

\* C37: every live update emitted by message_update has a text that ends
\* with its delta; the text is the text of the previous live update of the
\* message, then one "\n" for every block boundary crossed since, then the
\* delta; the separators are never part of a delta.
C37_LiveTextChain ==
    [][TextStep
           => /\ StartsWith(ctx.cumulativeStreamedText, LastLiveText(ctx))
              /\ OnlySeparators(AddedTo(LastLiveText(ctx), ctx.cumulativeStreamedText))
              /\ ctx'.agentEvents # ctx.agentEvents
                     => /\ Len(ctx'.agentEvents) = Len(ctx.agentEvents) + 1
                        /\ EndsWith(LastLiveText(ctx'), Last(ctx'.agentEvents).delta)
                        /\ LastLiveText(ctx')
                               = (IF BoundaryStep /\ ctx.agentEvents # <<>>
                                      THEN ctx.cumulativeStreamedText \o <<"\n">>
                                  ELSE ctx.cumulativeStreamedText)
                                 \o Last(ctx'.agentEvents).delta
                        /\ ~Includes(Last(ctx'.agentEvents).delta, <<"\n">>)
              /\ ctx'.agentEvents = ctx.agentEvents
                     => ctx'.cumulativeStreamedText
                            = IF BoundaryStep /\ ctx.agentEvents # <<>>
                                  THEN ctx.cumulativeStreamedText \o <<"\n">>
                              ELSE ctx.cumulativeStreamedText]_vars

\* the cumulative text after the step's block boundary, if it crosses one:
\* a boundary adds one separator unless nothing has been streamed yet
AfterBoundary ==
    IF BoundaryStep /\ ctx.cumulativeStreamedText # <<>>
        THEN ctx.cumulativeStreamedText \o <<"\n">>
    ELSE ctx.cumulativeStreamedText

\* C37, amended: every live update emitted by message_update has a text
\* that ends with its delta; the text is the text of the previous live
\* update of the message, then one "\n" for every block boundary crossed
\* since while the cumulative text was not empty (a boundary crossed before
\* any text was streamed adds none), then the delta; the separators are
\* never part of a delta.
C37_LiveTextChainAfterText ==
    [][TextStep
           => /\ StartsWith(ctx.cumulativeStreamedText, LastLiveText(ctx))
              /\ OnlySeparators(AddedTo(LastLiveText(ctx), ctx.cumulativeStreamedText))
              /\ ctx'.agentEvents # ctx.agentEvents
                     => /\ Len(ctx'.agentEvents) = Len(ctx.agentEvents) + 1
                        /\ EndsWith(LastLiveText(ctx'), Last(ctx'.agentEvents).delta)
                        /\ LastLiveText(ctx')
                               = AfterBoundary \o Last(ctx'.agentEvents).delta
                        /\ ~Includes(Last(ctx'.agentEvents).delta, <<"\n">>)
              /\ ctx'.agentEvents = ctx.agentEvents
                     => ctx'.cumulativeStreamedText = AfterBoundary]_vars

\* a media-only live update with empty text, then text of the next block
\* with no separator in front
C37_Witness ==
    /\ event.kind = "message_update"
    /\ event.contentIndex = 1
    /\ Len(ctx.agentEvents) = 2
    /\ ctx.agentEvents[1].text = <<>>
    /\ ctx.agentEvents[1].mediaUrls = 1
    /\ ctx.agentEvents[2].text = <<"a">>
    /\ ctx.agentEvents[2].delta = <<"a">>

\* C38: without a chunker blockBuffer is always a suffix of deltaBuffer:
\* every accepted chunk is appended to both, deltaBuffer only grows within a
\* block, and blockBuffer is cleared only by a text_end flush, by a boundary
\* flush, which clears deltaBuffer too, or by message_end, which clears both.
C38_BlockBufferSuffix ==
    [][~ctx.blockChunking
           => /\ EndsWith(ctx'.deltaBuffer, ctx'.blockBuffer)
              /\ (TextStep /\ ~BoundaryStep)
                     => /\ ctx'.deltaBuffer = ctx.deltaBuffer \o NewChunk
                        /\ \/ ctx'.blockBuffer = ctx.blockBuffer \o NewChunk
                           \/ /\ ctx'.blockBuffer = <<>>
                              /\ event'.type = "text_end"
                              /\ ctx.blockReplyBreak = "text_end"
              /\ BoundaryStep
                     => /\ ctx'.deltaBuffer = NewChunk
                        /\ \/ ctx'.blockBuffer = NewChunk
                           \/ /\ ctx'.blockBuffer = <<>>
                              /\ event'.type = "text_end"
                              /\ ctx.blockReplyBreak = "text_end"
              /\ (event'.kind = "message_update" /\ ~TextStep)
                     => /\ ctx'.deltaBuffer = ctx.deltaBuffer
                        /\ ctx'.blockBuffer = ctx.blockBuffer
              /\ EndStep => ctx'.deltaBuffer = <<>> /\ ctx'.blockBuffer = <<>>]_vars

\* a text_end flush has emptied blockBuffer, and the next delta of the block
\* went to both buffers
C38_Witness ==
    /\ ~ctx.blockChunking
    /\ ctx.deltaBuffer = <<"a", "b">>
    /\ ctx.blockBuffer = <<"b">>
    /\ Texts(ctx.blockReplies) = <<<<"a">>>>
    /\ phase = "streaming"

\* C39: with blockReplyBreak "message_end" no block reply is emitted while a
\* message_update is handled, for single-block and multi-block messages
\* alike: the answer text is delivered by block replies of message_end only.
C39_NoBlockReplyBeforeEnd ==
    [][(event'.kind = "message_update" /\ ctx.blockReplyBreak = "message_end")
           => /\ ctx'.blockReplies = ctx.blockReplies
              /\ CallsOf(NewCalls, "onBlockReply") = {}
              /\ ctx'.assistantTexts = ctx.assistantTexts]_vars


\* the step handles a text event whose contentIndex field is absent, not a
\* number, or a negative number
IndexlessStep ==
    /\ event'.kind = "message_update"
    /\ event'.role = "assistant"
    /\ event'.type \in TextEventTypes
    /\ ~(log'[1].type = "number" /\ log'[1].value >= 0)

\* C40: a text sub-event whose contentIndex is absent, negative or not a
\* number is handled as an event of the current block: it is not discarded
\* as stale, it causes no block boundary (no flush, no reset, no separator)
\* and it leaves the current block index unchanged, also after events that
\* carried indices.
C40_IndexlessInCurrentBlock ==
    [][IndexlessStep
           => /\ ctx' = handleMessageUpdate(ctx,
                  [event' EXCEPT !.contentIndex = ctx.currentTextContentIndex])
              /\ ctx'.currentTextContentIndex = ctx.currentTextContentIndex
              /\ ctx'.deltaBuffer =
                     ctx.deltaBuffer \o ExtractChunk(ctx.deltaBuffer, event')
              /\ event'.type # "text_end"
                     => /\ ctx'.blockReplies = ctx.blockReplies
                        /\ ctx'.blockBuffer =
                               ctx.blockBuffer
                                   \o ExtractChunk(ctx.deltaBuffer, event')
              /\ ctx.emittedAssistantUpdate => ctx'.emittedAssistantUpdate
              /\ ctx.lastStreamedAssistantCleaned # Undefined
                     => ctx'.lastStreamedAssistantCleaned # Undefined
              /\ StartsWith(ctx'.cumulativeStreamedText, ctx.cumulativeStreamedText)
              /\ Slice(ctx'.cumulativeStreamedText, Len(ctx.cumulativeStreamedText))
                     \in {<<>>, ExtractChunk(ctx.deltaBuffer, event')}]_vars

\* block 1 was current when a delta without contentIndex extended its text
C40_Witness ==
    /\ log = <<[type |-> "undefined", value |-> 0]>>
    /\ event.type = "text_delta"
    /\ event.delta = <<"b">>
    /\ seen = {0, 1}
    /\ ctx.currentTextContentIndex = 1
    /\ ctx.deltaBuffer = <<"a", "b">>
    /\ ctx.cumulativeStreamedText = <<"a", "\n", "a", "b">>

=============================================================================
